---- MODULE Spec2Model ----
(***************************************************************************)
(* Verification model of the PE portfolio pipeline (JLemieux66/PE):        *)
(* the v2 schema (Company / PEFirm / CompanyPEInvestment), the status      *)
(* normaliser, the categorisation classifiers, the import scripts, the     *)
(* scrapers' save_to_database functions, the General Atlantic migration    *)
(* scripts and the admin endpoints of the REST API.                        *)
(*                                                                         *)
(* Python values.  Text that the code takes apart (.lower(), `in`) is a    *)
(* sequence of one-character strings; text that the code only compares or  *)
(* stores is a TLA+ string.  Python's None is `None` for the latter and    *)
(* `NoneS` for the former.                                                 *)
(***************************************************************************)
EXTENDS Integers, Sequences, FiniteSets, TLC

VARIABLES
    \* --- CompanyPEInvestment.normalize_status on one object ---
    n_company,      \* self.company: NoCompany or a Company row
    n_inv,          \* self: raw_status, exit_type, computed_status
    n_pc,           \* "ready" before the call, "done" after it
    \* --- the categorisation classifiers on one input each ---
    employee_code,  \* argument of categorize_company_size
    revenue_code,   \* argument of categorize_revenue_tier
    size_ret,       \* its return value, NotCalled before the call
    tier_ret,       \* its return value, NotCalled before the call
    year_input,     \* argument of categorize_investment_stage
    stage_ret,      \* its return value or the exception it raised
    \* --- parse_location on one headquarters value ---
    hq_input,       \* argument of parse_location
    location_ret,   \* the triple it returns
    geo_pc,         \* "ready" before the call, "done" after it
    \* --- one company in an enrichment pass ---
    e_before,       \* the company's fields before the pass
    e_company,      \* the company's fields now
    e_resp,         \* what the providers answer: search, details, serper
    e_calls,        \* number of requests sent: search, details, serper
    e_pc,           \* "ready", then the pass that ran
    \* --- the database and the scripts run against it ---
    db,             \* the committed tables: companies, investments,
                    \* portfolio_companies (v1 schema) and pe_firms
    runs,           \* number of script runs so far
    updates,        \* number of admin PUT requests so far
    track,          \* observer: a script run that is being repeated
    \* --- the admin endpoints of the API ---
    ADMIN_API_KEY,  \* the configured key
    tags,           \* the committed company_tags table
    request,        \* the last admin request: method, key, company id
    response,       \* the status code of its response
    \* --- GET /api/companies with an employee_count filter ---
    requested,      \* the brackets the client asks for
    ec_query,       \* the employee_count query parameter
    v1_ret,         \* the employee_count values of the companies api.py returns
    v2_ret,         \* the same for backend/api_v2.py
    \* --- find_linkedin_urls_serper.py: one run over the companies found ---
    batch_size,     \* the argument of process_batch
    companies,      \* the objects loaded by the caller's session
    stored,         \* linkedin_url of the same rows in the table
    b_pc,           \* where process_batch and its caller are
    b_i,            \* the loop variable i of process_batch
    lookup,         \* per company: "none", "pending", "running", "done"
    results_of,     \* per company: what its lookup returned
    completion,     \* the companies in the order their lookups completed
    commits,        \* number of db_session.commit() calls
    sleeps,         \* number of asyncio.sleep(2) calls
    \* --- the loop of add_revenue_data.py or of enrich_with_swarm.py ---
    loop_script,    \* which of the two scripts runs
    loop_total,     \* len(companies)
    loop_idx,       \* the loop counter: companies processed so far
    loop_last,      \* the last company's path and the sleep that ended it
    loop_commits,   \* number of session.commit() calls in the loop
    \* --- one investment row that is normalized again and again ---
    row_company,    \* self.company
    row_self,       \* the row now
    row_created,    \* the row as it was created
    row_op,         \* the last operation on the row or its company
    row_calls       \* number of operations so far

normvars == <<n_company, n_inv, n_pc>>
catvars  == <<employee_code, revenue_code, size_ret, tier_ret,
              year_input, stage_ret>>
dbvars   == <<db, runs, updates, track>>
geovars  == <<hq_input, location_ret, geo_pc>>
enrvars  == <<e_before, e_company, e_resp, e_calls, e_pc>>
apivars  == <<ADMIN_API_KEY, tags, request, response>>
fltvars  == <<requested, ec_query, v1_ret, v2_ret>>
batchvars == <<batch_size, companies, stored, b_pc, b_i, lookup, results_of,
               completion, commits, sleeps>>
loopvars == <<loop_script, loop_total, loop_idx, loop_last, loop_commits>>
rowvars  == <<row_company, row_self, row_created, row_op, row_calls>>
latevars == <<loopvars, rowvars>>
extvars  == <<fltvars, batchvars, latevars>>
basevars == <<normvars, catvars, dbvars, geovars, enrvars, apivars>>
auxvars  == <<geovars, enrvars, apivars, extvars>>
vars     == <<normvars, catvars, dbvars, auxvars>>

-----------------------------------------------------------------------------
(* Python values *)

None  == "<None>"
NoneS == <<None>>
NotCalled == "<not called>"

\* an argument that may be None, an int or a str, with its type
PyNone == [type |-> "NoneType"]
PyInt(n) == [type |-> "int", int |-> n]
PyStr(s) == [type |-> "str", str |-> s]

\* bool(x) for a str-or-None held as a TLA+ string
Truthy(x) == x # None /\ x # ""
\* bool(s) for a str-or-None held as a character sequence
TruthyS(s) == s # NoneS /\ s # <<>>

UpperCase == <<"A","B","C","D","E","F","G","H","I","J","K","L","M",
               "N","O","P","Q","R","S","T","U","V","W","X","Y","Z">>
LowerCase == <<"a","b","c","d","e","f","g","h","i","j","k","l","m",
               "n","o","p","q","r","s","t","u","v","w","x","y","z">>

\* str.lower() on one character
LowerChar(c) ==
    IF \E i \in 1..Len(UpperCase) : UpperCase[i] = c
    THEN LowerCase[CHOOSE i \in 1..Len(UpperCase) : UpperCase[i] = c]
    ELSE c

\* str.lower()
lower(s) == [i \in 1..Len(s) |-> LowerChar(s[i])]

\* `word in s` for two str
Contains(s, word) ==
    \E i \in 0..(Len(s) - Len(word)) : SubSeq(s, i + 1, i + Len(word)) = word

-----------------------------------------------------------------------------
(* src/src/models/database_models_v2.py: CompanyPEInvestment.normalize_status *)

NoCompany == [loaded |-> FALSE]

w_active    == <<"a","c","t","i","v","e">>
w_current   == <<"c","u","r","r","e","n","t">>
w_portfolio == <<"p","o","r","t","f","o","l","i","o">>

StatusWords == {w_active, w_current, w_portfolio}

\* Mutant: rule 1 (IPO) is dropped.
normalize_status_NoIpoRule(self, company) ==
    IF Truthy(self.exit_type) /\ self.exit_type # "None"
    THEN [self EXCEPT !.computed_status = "Exit"]
    ELSE IF TruthyS(self.raw_status)
            /\ \E word \in StatusWords : Contains(lower(self.raw_status), word)
    THEN [self EXCEPT !.computed_status = "Active"]
    ELSE [self EXCEPT !.computed_status = "Exit"]

\* Mutant: rule 3 is tested before rule 2.
normalize_status_RawFirst(self, company) ==
    IF company # NoCompany /\ company.is_public
    THEN [self EXCEPT !.computed_status = "Exit",
                      !.exit_type = IF ~Truthy(self.exit_type) THEN "IPO" ELSE @]
    ELSE IF TruthyS(self.raw_status)
            /\ \E word \in StatusWords : Contains(lower(self.raw_status), word)
    THEN [self EXCEPT !.computed_status = "Active"]
    ELSE [self EXCEPT !.computed_status = "Exit"]

\* Mutant: rule 3 compares case-sensitively (no .lower()).
normalize_status_NoLower(self, company) ==
    IF company # NoCompany /\ company.is_public
    THEN [self EXCEPT !.computed_status = "Exit",
                      !.exit_type = IF ~Truthy(self.exit_type) THEN "IPO" ELSE @]
    ELSE IF Truthy(self.exit_type) /\ self.exit_type # "None"
    THEN [self EXCEPT !.computed_status = "Exit"]
    ELSE IF TruthyS(self.raw_status)
            /\ \E word \in StatusWords : Contains(self.raw_status, word)
    THEN [self EXCEPT !.computed_status = "Active"]
    ELSE [self EXCEPT !.computed_status = "Exit"]

\* self is the investment object, company is self.company (NoCompany when the
\* relationship is not loaded).  The result is self after the call.
normalize_status(self, company) ==
    \* Rule 1: IPO overrides everything
    IF company # NoCompany /\ company.is_public
    THEN [self EXCEPT !.computed_status = "Exit",
                      !.exit_type = IF ~Truthy(self.exit_type) THEN "IPO" ELSE @]
    \* Rule 2: exit type set
    ELSE IF Truthy(self.exit_type) /\ self.exit_type # "None"
    THEN [self EXCEPT !.computed_status = "Exit"]
    \* Rule 3: check raw status
    ELSE IF TruthyS(self.raw_status)
            /\ \E word \in StatusWords : Contains(lower(self.raw_status), word)
    THEN [self EXCEPT !.computed_status = "Active"]
    \* Rule 4: default to Exit
    ELSE [self EXCEPT !.computed_status = "Exit"]

-----------------------------------------------------------------------------
(* src/crunchbase_helpers.py and src/populate_categorization_fields.py *)

EMPLOYEE_RANGES ==
    ( "c_00001_00010" :> "1-10"        @@ "c_00011_00050" :> "11-50"
   @@ "c_00051_00100" :> "51-100"      @@ "c_00101_00250" :> "101-250"
   @@ "c_00251_00500" :> "251-500"     @@ "c_00501_01000" :> "501-1,000"
   @@ "c_01001_05000" :> "1,001-5,000" @@ "c_05001_10000" :> "5,001-10,000"
   @@ "c_10001_max"   :> "10,001+" )

REVENUE_RANGES ==
    ( "r_00000000" :> "Less than $1M"  @@ "r_00001000" :> "$1M - $10M"
   @@ "r_00010000" :> "$10M - $50M"    @@ "r_00050000" :> "$50M - $100M"
   @@ "r_00100000" :> "$100M - $500M"  @@ "r_00500000" :> "$500M - $1B"
   @@ "r_01000000" :> "$1B - $10B"     @@ "r_10000000" :> "$10B+" )

size_map ==
    ( "c_00001_00010" :> "Startup"  @@ "c_00011_00050" :> "Startup"
   @@ "c_00051_00100" :> "Small"    @@ "c_00101_00250" :> "Small"
   @@ "c_00251_00500" :> "Medium"   @@ "c_00501_01000" :> "Medium"
   @@ "c_01001_05000" :> "Large"    @@ "c_05001_10000" :> "Enterprise"
   @@ "c_10001_max"   :> "Enterprise" )

tier_map ==
    ( "r_00000000" :> "Pre-Revenue"  @@ "r_00001000" :> "Early Stage"
   @@ "r_00010000" :> "Growth Stage" @@ "r_00050000" :> "Growth Stage"
   @@ "r_00100000" :> "Scale-up"     @@ "r_00500000" :> "Scale-up"
   @@ "r_01000000" :> "Unicorn"      @@ "r_10000000" :> "Unicorn" )

\* dict.get(key): the value, or None for a missing key
DictGet(d, key) == IF key \in DOMAIN d THEN d[key] ELSE None

\* Mutant: the largest bracket is missing from the table.
categorize_company_size_NoMax(employee_code_) ==
    IF ~Truthy(employee_code_) THEN None
    ELSE DictGet([k \in DOMAIN size_map \ {"c_10001_max"} |-> size_map[k]],
                 employee_code_)

categorize_company_size(employee_code_) ==
    IF ~Truthy(employee_code_) THEN None
    ELSE DictGet(size_map, employee_code_)

\* Mutant: an unmapped code is passed through instead of giving None.
categorize_revenue_tier_PassThrough(revenue_code_) ==
    IF ~Truthy(revenue_code_) THEN None
    ELSE IF revenue_code_ \in DOMAIN tier_map THEN tier_map[revenue_code_]
    ELSE revenue_code_

categorize_revenue_tier(revenue_code_) ==
    IF ~Truthy(revenue_code_) THEN None
    ELSE DictGet(tier_map, revenue_code_)

-----------------------------------------------------------------------------
(* Raw status texts, as scraped from the firms' sites *)

s_Active == <<"A","c","t","i","v","e">>
s_ACTIVE == <<"A","C","T","I","V","E">>
s_Current == <<"C","u","r","r","e","n","t">>
s_PortfolioCompany == <<"P","o","r","t","f","o","l","i","o"," ","C","o","m","p","a","n","y">>
s_Inactive == <<"I","n","a","c","t","i","v","e">>
s_Exit == <<"E","x","i","t">>
s_Exited == <<"E","x","i","t","e","d">>
s_Realized == <<"R","e","a","l","i","z","e","d">>
s_activ == <<"a","c","t","i","v">>
s_FormerPORTFOLIO == <<"F","o","r","m","e","r"," ","P","O","R","T","F","O","L","I","O">>
s_garbled == <<"?","c"," ","u"," ","r","#">>
s_Portfolio == <<"P","o","r","t","f","o","l","i","o">>
s_Acquired == <<"A","c","q","u","i","r","e","d">>
s_IPO == <<"I","P","O">>
\* a status text of 60 characters, as portfolio_companies.status (String(500))
\* may hold
s_Long == [k \in 1..60 |-> IF k = 1 THEN "A" ELSE "x"]

RawStatuses ==
    { NoneS, <<>>, s_Active, s_ACTIVE, s_Current, s_PortfolioCompany, s_Inactive,
      s_Exit, s_Exited, s_Realized, s_activ, s_FormerPORTFOLIO, s_garbled, s_Portfolio }

ExitTypes == { None, "", "None", "IPO", "Acquisition" }

CompanyStates ==
    { NoCompany, [loaded |-> TRUE, is_public |-> FALSE], [loaded |-> TRUE, is_public |-> TRUE] }

-----------------------------------------------------------------------------
(* Specification SpecNorm: one call of normalize_status on every input *)

IdleNorm ==
    /\ n_company = NoCompany
    /\ n_inv = [raw_status |-> NoneS, exit_type |-> None, computed_status |-> None]
    /\ n_pc = "idle"

IdleDB ==
    /\ db = [companies |-> {}, investments |-> {}, portfolio_companies |-> {},
             pe_firms |-> {}]
    /\ runs = 0
    /\ updates = 0
    /\ track = [phase |-> "free"]

IdleGeo ==
    /\ hq_input = PyNone
    /\ location_ret = <<NoneS, NoneS, NoneS>>
    /\ geo_pc = "idle"

NoCalls == [search |-> 0, details |-> 0, serper |-> 0]

IdleEnr ==
    /\ e_before = [empty |-> TRUE]
    /\ e_company = [empty |-> TRUE]
    /\ e_resp = [empty |-> TRUE]
    /\ e_calls = NoCalls
    /\ e_pc = "idle"

\* src/backend/api_v2.py line 480: the key when the environment sets none
DefaultAdminKey == "your-secret-admin-key-here"

NoRequest == [method |-> "none"]

NoResponse == [status_code |-> 0]

IdleApi ==
    /\ ADMIN_API_KEY = DefaultAdminKey
    /\ tags = {}
    /\ request = NoRequest
    /\ response = NoResponse

\* a response that has not been given yet, and one that lists rows
NoReturn == [called |-> FALSE]
Returned(rows) == [called |-> TRUE, rows |-> rows]

IdleFilter ==
    /\ requested = <<>>
    /\ ec_query = NoneS
    /\ v1_ret = NoReturn
    /\ v2_ret = NoReturn

IdleBatch ==
    /\ batch_size = 0
    /\ companies = <<>>
    /\ stored = <<>>
    /\ b_pc = "idle"
    /\ b_i = 0
    /\ lookup = <<>>
    /\ results_of = <<>>
    /\ completion = <<>>
    /\ commits = 0
    /\ sleeps = 0

NoCompanyYet == [path |-> "none", slept |-> 0]

IdleLoop ==
    /\ loop_script = "idle"
    /\ loop_total = 0
    /\ loop_idx = 0
    /\ loop_last = NoCompanyYet
    /\ loop_commits = 0

IdleRow ==
    /\ row_company = NoCompany
    /\ row_self = [raw_status |-> NoneS, exit_type |-> None, computed_status |-> None]
    /\ row_created = row_self
    /\ row_op = "idle"
    /\ row_calls = 0

IdleLate == IdleLoop /\ IdleRow

IdleExt == IdleFilter /\ IdleBatch /\ IdleLate

IdleAux == IdleGeo /\ IdleEnr /\ IdleApi /\ IdleExt

IdleCat ==
    /\ employee_code = None
    /\ revenue_code = None
    /\ size_ret = NotCalled
    /\ tier_ret = NotCalled
    /\ year_input = PyNone
    /\ stage_ret = NotCalled

IdleBase == IdleNorm /\ IdleCat /\ IdleDB /\ IdleGeo /\ IdleEnr /\ IdleApi

InitNorm ==
    /\ n_company \in CompanyStates
    /\ n_inv \in [raw_status : RawStatuses, exit_type : ExitTypes, computed_status : {None}]
    /\ n_pc = "ready"
    /\ IdleCat
    /\ IdleDB
    /\ IdleAux

CallNormalizeStatus ==
    /\ n_pc = "ready"
    /\ n_inv' = normalize_status(n_inv, n_company)
    /\ n_pc' = "done"
    /\ UNCHANGED <<n_company, catvars, dbvars, auxvars>>

NextNorm == CallNormalizeStatus

SpecNorm == InitNorm /\ [][NextNorm]_vars

-----------------------------------------------------------------------------
(* src/populate_categorization_fields.py: categorize_investment_stage *)


AttributeError == "<AttributeError>"

DigitChars == <<"0","1","2","3","4","5","6","7","8","9">>
IsDigit(c) == \E k \in 1..10 : DigitChars[k] = c
DigitVal(c) == (CHOOSE k \in 1..10 : DigitChars[k] = c) - 1
IsSpace(c) == c \in {" ", "\t", "\n"}

\* str.strip()
RECURSIVE lstrip(_)
lstrip(s) == IF s # <<>> /\ IsSpace(Head(s)) THEN lstrip(Tail(s)) ELSE s
RECURSIVE rstrip(_)
rstrip(s) ==
    IF s # <<>> /\ IsSpace(s[Len(s)]) THEN rstrip(SubSeq(s, 1, Len(s) - 1)) ELSE s
strip(s) == rstrip(lstrip(s))

\* the value of a run of digits, single underscores allowed between digits
RECURSIVE DigitsValue(_, _)
DigitsValue(s, acc) ==
    IF s = <<>> THEN acc
    ELSE IF s[1] = "_" THEN DigitsValue(Tail(s), acc)
    ELSE DigitsValue(Tail(s), 10 * acc + DigitVal(s[1]))

IsDigitRun(s) ==
    /\ s # <<>>
    /\ \A k \in 1..Len(s) : IsDigit(s[k]) \/ s[k] = "_"
    /\ IsDigit(s[1]) /\ IsDigit(s[Len(s)])
    /\ \A k \in 1..(Len(s) - 1) : ~(s[k] = "_" /\ s[k + 1] = "_")

ValueError == [error |-> "ValueError"]

\* int(s) for a str: surrounding whitespace, an optional sign, digits
int(s) ==
    LET t == strip(s)
        signed == t # <<>> /\ t[1] \in {"+", "-"}
        digits == IF signed THEN Tail(t) ELSE t
    IN  IF ~IsDigitRun(digits) THEN ValueError
        ELSE IF signed /\ t[1] = "-" THEN PyInt(0 - DigitsValue(digits, 0))
        ELSE PyInt(DigitsValue(digits, 0))

\* lines 45-59.  `not investment_year` is true of None, '' and 0; every
\* other int reaches investment_year.strip(), outside the try
categorize_investment_stage(investment_year) ==
    IF investment_year = PyNone THEN None
    ELSE IF investment_year.type = "int"
    THEN IF investment_year.int = 0 THEN None ELSE AttributeError
    ELSE IF investment_year.str = <<>> \/ strip(investment_year.str) = <<>>
    THEN None
    ELSE LET year == int(investment_year.str) IN
         IF year = ValueError THEN None
         ELSE IF year.int >= 2020 THEN "Recent"
         ELSE IF year.int >= 2015 THEN "Mature"
         ELSE "Legacy"

-----------------------------------------------------------------------------
(* src/populate_geographic_fields.py: parse_location *)

\* lines 8-22
US_STATES ==
    { <<"A","l","a","b","a","m","a">>, <<"A","l","a","s","k","a">>,
      <<"A","r","i","z","o","n","a">>, <<"A","r","k","a","n","s","a","s">>,
      <<"C","a","l","i","f","o","r","n","i","a">>, <<"C","o","l","o","r","a","d","o">>,
      <<"C","o","n","n","e","c","t","i","c","u","t">>, <<"D","e","l","a","w","a","r","e">>,
      <<"F","l","o","r","i","d","a">>, <<"G","e","o","r","g","i","a">>,
      <<"H","a","w","a","i","i">>, <<"I","d","a","h","o">>, <<"I","l","l","i","n","o","i","s">>,
      <<"I","n","d","i","a","n","a">>, <<"I","o","w","a">>, <<"K","a","n","s","a","s">>,
      <<"K","e","n","t","u","c","k","y">>, <<"L","o","u","i","s","i","a","n","a">>,
      <<"M","a","i","n","e">>, <<"M","a","r","y","l","a","n","d">>,
      <<"M","a","s","s","a","c","h","u","s","e","t","t","s">>, <<"M","i","c","h","i","g","a","n">>,
      <<"M","i","n","n","e","s","o","t","a">>, <<"M","i","s","s","i","s","s","i","p","p","i">>,
      <<"M","i","s","s","o","u","r","i">>, <<"M","o","n","t","a","n","a">>,
      <<"N","e","b","r","a","s","k","a">>, <<"N","e","v","a","d","a">>,
      <<"N","e","w"," ","H","a","m","p","s","h","i","r","e">>,
      <<"N","e","w"," ","J","e","r","s","e","y">>, <<"N","e","w"," ","M","e","x","i","c","o">>,
      <<"N","e","w"," ","Y","o","r","k">>,
      <<"N","o","r","t","h"," ","C","a","r","o","l","i","n","a">>,
      <<"N","o","r","t","h"," ","D","a","k","o","t","a">>, <<"O","h","i","o">>,
      <<"O","k","l","a","h","o","m","a">>, <<"O","r","e","g","o","n">>,
      <<"P","e","n","n","s","y","l","v","a","n","i","a">>,
      <<"R","h","o","d","e"," ","I","s","l","a","n","d">>,
      <<"S","o","u","t","h"," ","C","a","r","o","l","i","n","a">>,
      <<"S","o","u","t","h"," ","D","a","k","o","t","a">>, <<"T","e","n","n","e","s","s","e","e">>,
      <<"T","e","x","a","s">>, <<"U","t","a","h">>, <<"V","e","r","m","o","n","t">>,
      <<"V","i","r","g","i","n","i","a">>, <<"W","a","s","h","i","n","g","t","o","n">>,
      <<"W","e","s","t"," ","V","i","r","g","i","n","i","a">>,
      <<"W","i","s","c","o","n","s","i","n">>, <<"W","y","o","m","i","n","g">>,
      <<"D","i","s","t","r","i","c","t"," ","o","f"," ","C","o","l","u","m","b","i","a">>,
      <<"A","L">>, <<"A","K">>, <<"A","Z">>, <<"A","R">>, <<"C","A">>, <<"C","O">>, <<"C","T">>,
      <<"D","E">>, <<"F","L">>, <<"G","A">>, <<"H","I">>, <<"I","D">>, <<"I","L">>, <<"I","N">>,
      <<"I","A">>, <<"K","S">>, <<"K","Y">>, <<"L","A">>, <<"M","E">>, <<"M","D">>, <<"M","A">>,
      <<"M","I">>, <<"M","N">>, <<"M","S">>, <<"M","O">>, <<"M","T">>, <<"N","E">>, <<"N","V">>,
      <<"N","H">>, <<"N","J">>, <<"N","M">>, <<"N","Y">>, <<"N","C">>, <<"N","D">>, <<"O","H">>,
      <<"O","K">>, <<"O","R">>, <<"P","A">>, <<"R","I">>, <<"S","C">>, <<"S","D">>, <<"T","N">>,
      <<"T","X">>, <<"U","T">>, <<"V","T">>, <<"V","A">>, <<"W","A">>, <<"W","V">>, <<"W","I">>,
      <<"W","Y">>, <<"D","C">> }

\* lines 24-29
CANADIAN_PROVINCES ==
    { <<"A","l","b","e","r","t","a">>,
      <<"B","r","i","t","i","s","h"," ","C","o","l","u","m","b","i","a">>,
      <<"M","a","n","i","t","o","b","a">>, <<"N","e","w"," ","B","r","u","n","s","w","i","c","k">>,
      <<"N","e","w","f","o","u","n","d","l","a","n","d"," ","a","n","d"," ","L","a","b","r","a","d","o","r">>,
      <<"N","o","r","t","h","w","e","s","t"," ","T","e","r","r","i","t","o","r","i","e","s">>,
      <<"N","o","v","a"," ","S","c","o","t","i","a">>, <<"N","u","n","a","v","u","t">>,
      <<"O","n","t","a","r","i","o">>,
      <<"P","r","i","n","c","e"," ","E","d","w","a","r","d"," ","I","s","l","a","n","d">>,
      <<"Q","u","e","b","e","c">>, <<"S","a","s","k","a","t","c","h","e","w","a","n">>,
      <<"Y","u","k","o","n">>, <<"A","B">>, <<"B","C">>, <<"M","B">>, <<"N","B">>, <<"N","L">>,
      <<"N","T">>, <<"N","S">>, <<"N","U">>, <<"O","N">>, <<"P","E">>, <<"Q","C">>, <<"S","K">>,
      <<"Y","T">> }

\* line 32
UK_NAMES ==
    { <<"E","n","g","l","a","n","d">>, <<"S","c","o","t","l","a","n","d">>,
      <<"W","a","l","e","s">>, <<"N","o","r","t","h","e","r","n"," ","I","r","e","l","a","n","d">>,
      <<"U","n","i","t","e","d"," ","K","i","n","g","d","o","m">>, <<"U","K">> }

t_UnitedStates == <<"U","n","i","t","e","d"," ","S","t","a","t","e","s">>
t_Canada == <<"C","a","n","a","d","a">>
t_UnitedKingdom == <<"U","n","i","t","e","d"," ","K","i","n","g","d","o","m">>

\* str.split(',')
RECURSIVE split(_)
split(s) ==
    IF \A k \in 1..Len(s) : s[k] # "," THEN <<s>>
    ELSE LET k == CHOOSE k \in 1..Len(s) :
                    s[k] = "," /\ \A j \in 1..(k - 1) : s[j] # ","
         IN  <<SubSeq(s, 1, k - 1)>> \o split(SubSeq(s, k + 1, Len(s)))

\* [p.strip() for p in headquarters.split(',')]
StrippedParts(s) == LET raw == split(s) IN [k \in 1..Len(raw) |-> strip(raw[k])]

\* `not headquarters or headquarters.strip() == ''`
BlankLocation(headquarters) ==
    \/ headquarters = PyNone
    \/ strip(headquarters.str) = <<>>

\* Mutant: the parts are not trimmed.
parse_location_NoStrip(headquarters) ==
    IF BlankLocation(headquarters) THEN <<NoneS, NoneS, NoneS>>
    ELSE
    LET parts == split(headquarters.str) IN
    IF Len(parts) = 1 THEN <<parts[1], NoneS, NoneS>>
    ELSE IF Len(parts) = 2
    THEN LET city == parts[1]
             region == parts[2]
         IN  IF region \in US_STATES THEN <<city, region, t_UnitedStates>>
             ELSE IF region \in CANADIAN_PROVINCES THEN <<city, region, t_Canada>>
             ELSE IF region \in UK_NAMES THEN <<city, region, t_UnitedKingdom>>
             ELSE <<city, NoneS, region>>
    ELSE LET city == parts[1]
             state_region == parts[2]
             country_part == parts[Len(parts)]
             country ==
                 IF state_region # <<>> /\ state_region \in US_STATES
                 THEN t_UnitedStates
                 ELSE IF state_region # <<>> /\ state_region \in CANADIAN_PROVINCES
                 THEN t_Canada
                 ELSE IF country_part \in UK_NAMES THEN t_UnitedKingdom
                 ELSE country_part
         IN  <<city, state_region, country>>

\* Mutant: with three or more parts the last part decides the country alone.
parse_location_LastPartOnly(headquarters) ==
    IF BlankLocation(headquarters) THEN <<NoneS, NoneS, NoneS>>
    ELSE
    LET parts == StrippedParts(headquarters.str) IN
    IF Len(parts) = 1 THEN <<parts[1], NoneS, NoneS>>
    ELSE IF Len(parts) = 2
    THEN LET city == parts[1]
             region == parts[2]
         IN  IF region \in US_STATES THEN <<city, region, t_UnitedStates>>
             ELSE IF region \in CANADIAN_PROVINCES THEN <<city, region, t_Canada>>
             ELSE IF region \in UK_NAMES THEN <<city, region, t_UnitedKingdom>>
             ELSE <<city, NoneS, region>>
    ELSE LET city == parts[1]
             state_region == parts[2]
             country_part == parts[Len(parts)]
             country ==
                 IF country_part \in UK_NAMES THEN t_UnitedKingdom
                 ELSE country_part
         IN  <<city, state_region, country>>

\* Mutant: whitespace-only text is split like any other text.
parse_location_NoBlankGuard(headquarters) ==
    IF headquarters = PyNone \/ headquarters.str = <<>>
    THEN <<NoneS, NoneS, NoneS>>
    ELSE
    LET parts == StrippedParts(headquarters.str) IN
    IF Len(parts) = 1 THEN <<parts[1], NoneS, NoneS>>
    ELSE IF Len(parts) = 2
    THEN LET city == parts[1]
             region == parts[2]
         IN  IF region \in US_STATES THEN <<city, region, t_UnitedStates>>
             ELSE IF region \in CANADIAN_PROVINCES THEN <<city, region, t_Canada>>
             ELSE IF region \in UK_NAMES THEN <<city, region, t_UnitedKingdom>>
             ELSE <<city, NoneS, region>>
    ELSE LET city == parts[1]
             state_region == parts[2]
             country_part == parts[Len(parts)]
             country ==
                 IF state_region # <<>> /\ state_region \in US_STATES
                 THEN t_UnitedStates
                 ELSE IF state_region # <<>> /\ state_region \in CANADIAN_PROVINCES
                 THEN t_Canada
                 ELSE IF country_part \in UK_NAMES THEN t_UnitedKingdom
                 ELSE country_part
         IN  <<city, state_region, country>>

\* lines 34-84: the triple (city, state_region, country)
parse_location(headquarters) ==
    IF BlankLocation(headquarters) THEN <<NoneS, NoneS, NoneS>>
    ELSE
    LET parts == StrippedParts(headquarters.str) IN
    IF Len(parts) = 1 THEN <<parts[1], NoneS, NoneS>>
    ELSE IF Len(parts) = 2
    THEN LET city == parts[1]
             region == parts[2]
         IN  IF region \in US_STATES THEN <<city, region, t_UnitedStates>>
             ELSE IF region \in CANADIAN_PROVINCES THEN <<city, region, t_Canada>>
             ELSE IF region \in UK_NAMES THEN <<city, region, t_UnitedKingdom>>
             ELSE <<city, NoneS, region>>
    ELSE LET city == parts[1]
             state_region == parts[2]
             country_part == parts[Len(parts)]
             country ==
                 IF state_region # <<>> /\ state_region \in US_STATES
                 THEN t_UnitedStates
                 ELSE IF state_region # <<>> /\ state_region \in CANADIAN_PROVINCES
                 THEN t_Canada
                 ELSE IF country_part \in UK_NAMES THEN t_UnitedKingdom
                 ELSE country_part
         IN  <<city, state_region, country>>

-----------------------------------------------------------------------------
(* Specification SpecGeo: one call of parse_location on every input *)

Cities == { <<"S","a","n"," ","F","r","a","n","c","i","s","c","o">>, <<" ","A","u","s","t","i","n"," ">>, <<>> }

Regions ==
    { <<"C","a","l","i","f","o","r","n","i","a">>,
      <<"T","X">>,
      <<"O","n","t","a","r","i","o">>,
      <<"B","C">>,
      <<"E","n","g","l","a","n","d">>,
      <<"U","n","i","t","e","d"," ","K","i","n","g","d","o","m">>,
      <<"G","e","r","m","a","n","y">>,
      <<"g","e","o","r","g","i","a">>,
      <<" ","T","e","x","a","s">>,
      <<>> }

LastParts ==
    { <<"U","S","A">>,
      <<"U","n","i","t","e","d"," ","K","i","n","g","d","o","m">>,
      <<"E","u","r","o","p","e">>,
      <<"C","a","n","a","d","a">>,
      <<>> }

MiddleParts == { <<"S","u","i","t","e"," ","5">> }

Separators == { <<",">>, <<",", " ">> }

\* the headquarters texts: one to four parts joined by a separator
HeadquartersTexts ==
    { <<>>, <<" ", " ">> }
    \cup Cities
    \cup { c \o sep \o r : c \in Cities, sep \in Separators, r \in Regions }
    \cup { c \o sep \o r \o sep \o l :
             c \in Cities, sep \in Separators, r \in Regions, l \in LastParts }
    \cup { c \o sep \o m \o sep \o r \o sep \o l :
             c \in {<<"S","a","n"," ","F","r","a","n","c","i","s","c","o">>}, sep \in Separators, m \in MiddleParts,
             r \in {<<"C","a","l","i","f","o","r","n","i","a">>, <<"E","n","g","l","a","n","d">>}, l \in LastParts }

InitGeo ==
    /\ hq_input \in {PyNone} \cup { PyStr(t) : t \in HeadquartersTexts }
    /\ location_ret = <<NoneS, NoneS, NoneS>>
    /\ geo_pc = "ready"
    /\ IdleNorm
    /\ IdleCat
    /\ IdleDB
    /\ IdleEnr
    /\ IdleApi
    /\ IdleExt

CallParseLocation ==
    /\ geo_pc = "ready"
    /\ location_ret' = parse_location(hq_input)
    /\ geo_pc' = "done"
    /\ UNCHANGED <<hq_input, normvars, catvars, dbvars, enrvars, apivars, extvars>>

NextGeo == CallParseLocation

SpecGeo == InitGeo /\ [][NextGeo]_vars

-----------------------------------------------------------------------------
(* src/crunchbase_helpers.py: the Crunchbase client *)

\* the outcome of requests.get: an exception (timeout, connection error,
\* body that is not JSON) or a response
HttpException == [kind |-> "exception"]
HttpResponse(status_code, body) ==
    [kind |-> "response", status_code |-> status_code, body |-> body]

\* a dict that is empty
EmptyDict == [empty |-> TRUE]

\* lines 42-65: the list of permalinks; body.entities is the sequence of the
\* permalinks of data["entities"]
search_company_crunchbase(resp) ==
    IF resp.kind = "exception" THEN <<>>
    ELSE IF resp.status_code # 200 THEN <<>>
    ELSE IF resp.body.entities # <<>> THEN <<resp.body.entities[1]>>
    ELSE <<>>

\* lines 85-96: hq from the city and the region of location_identifiers
Headquarters(city, region) ==
    IF city # <<>> /\ region # <<>> THEN city \o <<",", " ">> \o region
    ELSE IF city # <<>> THEN city
    ELSE IF region # <<>> THEN region
    ELSE <<>>

\* Mutant: the body is read whatever the status code is.
get_company_details_crunchbase_AnyStatus(resp) ==
    IF resp.kind = "exception" THEN EmptyDict
    ELSE [empty |-> FALSE,
          headquarters |-> Headquarters(resp.body.city, resp.body.region),
          description |-> resp.body.short_description,
          revenue_range |-> resp.body.revenue_range,
          employee_count |-> resp.body.num_employees_enum]

\* lines 67-114: the details dict (founded_year, which no pass reads, is left
\* out); body is data["properties"]
get_company_details_crunchbase(resp) ==
    IF resp.kind = "exception" THEN EmptyDict
    ELSE IF resp.status_code # 200 THEN EmptyDict
    ELSE [empty |-> FALSE,
          headquarters |-> Headquarters(resp.body.city, resp.body.region),
          description |-> resp.body.short_description,
          revenue_range |-> resp.body.revenue_range,
          employee_count |-> resp.body.num_employees_enum]

-----------------------------------------------------------------------------
(* src/src/enrichment/enrich_pipeline_v2.py *)

\* lines 32-83: the company after the call, the value returned and the
\* requests sent.  The details dict of crunchbase_helpers has no
\* 'linkedin_url' and no 'industry_category' key, so details.get() of them
\* is None.
enrich_company_with_crunchbase(company, resp) ==
    LET results == search_company_crunchbase(resp.search)
        searched == [NoCalls EXCEPT !.search = 1]
    IN
    IF results = <<>> \/ results[1] = ""
    THEN [company |-> company, enriched |-> FALSE, calls |-> searched]
    ELSE
    LET details == get_company_details_crunchbase(resp.details)
        fetched == [searched EXCEPT !.details = 1]
    IN
    IF details = EmptyDict
    THEN [company |-> company, enriched |-> FALSE, calls |-> fetched]
    ELSE
    LET parts == IF details.headquarters = <<>> THEN <<>>
                 ELSE StrippedParts(details.headquarters)
        c1 == [company EXCEPT
                 !.revenue_range =
                     IF Truthy(details.revenue_range) /\ ~Truthy(@)
                     THEN details.revenue_range ELSE @,
                 !.employee_count =
                     IF Truthy(details.employee_count) /\ ~Truthy(@)
                     THEN details.employee_count ELSE @,
                 !.description =
                     IF Truthy(details.description) /\ ~Truthy(@)
                     THEN details.description ELSE @,
                 !.city = IF Len(parts) >= 2 THEN parts[1] ELSE @,
                 !.state_region = IF Len(parts) >= 3 THEN parts[2] ELSE @,
                 !.country =
                     IF Len(parts) >= 3 THEN parts[3]
                     ELSE IF Len(parts) = 2 THEN parts[2]
                     ELSE IF Len(parts) = 1 THEN parts[1]
                     ELSE @]
    IN  [company |-> c1, enriched |-> TRUE, calls |-> fetched]

\* SERPER_API_KEY is not set: find_linkedin_url requests nothing
NoKey == [kind |-> "no key"]

\* lines 88-131: the URL found, or None
find_linkedin_url(resp) ==
    IF resp = NoKey THEN None
    ELSE IF resp.kind = "exception" THEN None
    ELSE IF resp.status_code # 200 THEN None
    ELSE IF \E k \in 1..Len(resp.body) : resp.body[k].company_page
    THEN LET k == CHOOSE k \in 1..Len(resp.body) :
                    /\ resp.body[k].company_page
                    /\ \A j \in 1..(k - 1) : ~resp.body[j].company_page
         IN  resp.body[k].url
    ELSE None

\* lines 183-230: the loop body of enrich_companies for one company, with
\* skip_linkedin and skip_crunchbase False as main() leaves them
enrich_companies_body(company, resp) ==
    LET needs_enrichment ==
            \/ ~Truthy(company.revenue_range)
            \/ ~Truthy(company.employee_count)
            \/ ~Truthy(company.linkedin_url)
            \/ ~Truthy(company.industry_category)
    IN
    IF ~needs_enrichment THEN [company |-> company, calls |-> NoCalls]
    ELSE
    LET r == enrich_company_with_crunchbase(company, resp) IN
    IF r.enriched THEN [company |-> r.company, calls |-> r.calls]
    ELSE IF Truthy(company.linkedin_url) THEN [company |-> company, calls |-> r.calls]
    ELSE
    LET linkedin_url == find_linkedin_url(resp.serper)
        calls == IF resp.serper = NoKey THEN r.calls
                 ELSE [r.calls EXCEPT !.serper = 1]
    IN  IF Truthy(linkedin_url)
        THEN [company |-> [company EXCEPT !.linkedin_url = linkedin_url],
              calls |-> calls]
        ELSE [company |-> company, calls |-> calls]

-----------------------------------------------------------------------------
(* src/add_revenue_data.py *)

\* lines 21-58: the loop body of add_revenue_employee_data for one company
add_revenue_employee_data_body(company, resp) ==
    LET results == search_company_crunchbase(resp.search)
        searched == [NoCalls EXCEPT !.search = 1]
    IN
    IF results = <<>> THEN [company |-> company, calls |-> searched]
    ELSE
    LET details == get_company_details_crunchbase(resp.details)
        fetched == [searched EXCEPT !.details = 1]
    IN
    IF details = EmptyDict THEN [company |-> company, calls |-> fetched]
    ELSE IF Truthy(details.revenue_range) \/ Truthy(details.employee_count)
    THEN [company |-> [company EXCEPT !.revenue_range = details.revenue_range,
                                       !.employee_count = details.employee_count],
          calls |-> fetched]
    ELSE [company |-> company, calls |-> fetched]

-----------------------------------------------------------------------------
(* Specification SpecEnrich: one company in one enrichment pass *)

t_Munich == <<"M","u","n","i","c","h">>
t_Bavaria == <<"B","a","v","a","r","i","a">>
t_Berlin == <<"B","e","r","l","i","n">>
t_Germany == <<"G","e","r","m","a","n","y">>

\* the company before the pass: each group of fields empty or populated
CompaniesBefore ==
    { [revenue_range |-> rev, employee_count |-> emp, linkedin_url |-> li,
       description |-> de, industry_category |-> ind,
       city |-> geo[1], state_region |-> geo[2], country |-> geo[3]] :
      rev \in {None, "r_00001000"}, emp \in {None, "c_00011_00050"},
      li \in {None, "https://www.linkedin.com/company/old"},
      de \in {None, "old description"}, ind \in {None, "Technology & Software"},
      geo \in {<<NoneS, NoneS, NoneS>>, <<t_Berlin, NoneS, t_Germany>>} }

SearchResponses ==
    { HttpException, HttpResponse(429, [entities |-> <<>>]),
      HttpResponse(500, [entities |-> <<"acme">>]),
      HttpResponse(200, [entities |-> <<>>]),
      HttpResponse(200, [entities |-> <<"acme">>]),
      HttpResponse(200, [entities |-> <<"">>]) }

Properties ==
    [city : {<<>>, t_Munich}, region : {<<>>, t_Bavaria},
     short_description : {"", "new description"},
     revenue_range : {"", "r_00010000"},
     num_employees_enum : {"", "c_00051_00100"}]

FullProperties ==
    [city |-> t_Munich, region |-> t_Bavaria,
     short_description |-> "new description", revenue_range |-> "r_00010000",
     num_employees_enum |-> "c_00051_00100"]

DetailsResponses ==
    { HttpException, HttpResponse(404, FullProperties) }
        \cup { HttpResponse(200, p) : p \in Properties }

OrganicResult(url, company_page) == [url |-> url, company_page |-> company_page]

SerperResponses ==
    { NoKey, HttpException, HttpResponse(500, <<>>), HttpResponse(200, <<>>),
      HttpResponse(200, << OrganicResult("https://example.com/acme", FALSE),
                           OrganicResult("https://www.linkedin.com/company/acme", TRUE) >>) }

InitEnrich ==
    /\ e_before \in CompaniesBefore
    /\ e_company = e_before
    /\ e_resp \in [search : SearchResponses, details : DetailsResponses,
                   serper : SerperResponses]
    /\ e_calls = NoCalls
    /\ e_pc = "ready"
    /\ IdleNorm
    /\ IdleCat
    /\ IdleDB
    /\ IdleGeo
    /\ IdleApi
    /\ IdleExt

EnrichCompany ==
    /\ e_pc = "ready"
    /\ LET r == enrich_companies_body(e_company, e_resp) IN
          /\ e_company' = r.company
          /\ e_calls' = r.calls
    /\ e_pc' = "enrich_companies"
    /\ UNCHANGED <<e_before, e_resp, normvars, catvars, dbvars, geovars, apivars, extvars>>

AddRevenueEmployeeData ==
    /\ e_pc = "ready"
    /\ LET r == add_revenue_employee_data_body(e_company, e_resp) IN
          /\ e_company' = r.company
          /\ e_calls' = r.calls
    /\ e_pc' = "add_revenue_employee_data"
    /\ UNCHANGED <<e_before, e_resp, normvars, catvars, dbvars, geovars, apivars, extvars>>

NextEnrich ==
    \/ EnrichCompany
    \/ AddRevenueEmployeeData

SpecEnrich == InitEnrich /\ [][NextEnrich]_vars

-----------------------------------------------------------------------------
(* Specification SpecCat: the classifiers of populate_categorization_fields *)

EmployeeInputs ==
    DOMAIN EMPLOYEE_RANGES
        \cup { None, "", "c_bogus", "1-10", "C_00001_00010", " c_00001_00010", "r_00000000" }

RevenueInputs ==
    DOMAIN REVENUE_RANGES
        \cup { None, "", "r_bogus", "$1M - $10M", "R_00001000", "r_00001000 ", "c_00001_00010" }

YearValues == {0, 1999, 2014, 2015, 2019, 2020, 2025}

InvestmentYears ==
    { PyNone } \cup { PyInt(n) : n \in YearValues } \cup
    { PyStr(t) : t \in
        { <<>>, <<" ", " ">>,
          <<"2","0","2","0">>, <<"2","0","1","9">>, <<"2","0","1","5">>,
          <<"2","0","1","4">>, <<"1","9","9","9">>, <<"2","0","2","5">>, <<"0">>,
          <<" ","2","0","2","0"," ">>, <<"+","2","0","2","1">>, <<"-","5">>,
          <<"2","_","0","2","0">>, <<"2","0","2","0",".","0">>,
          <<"2","0","x","0">>, <<"a","b","c">>, <<"n","/","a">>, <<"-">> } }

InitCat ==
    /\ employee_code \in EmployeeInputs
    /\ revenue_code \in RevenueInputs
    /\ size_ret = NotCalled
    /\ tier_ret = NotCalled
    /\ year_input \in InvestmentYears
    /\ stage_ret = NotCalled
    /\ IdleNorm
    /\ IdleDB
    /\ IdleAux

CallCategorizeCompanySize ==
    /\ size_ret = NotCalled
    /\ size_ret' = categorize_company_size(employee_code)
    /\ UNCHANGED <<employee_code, revenue_code, tier_ret, year_input,
                   stage_ret, normvars, dbvars, auxvars>>

CallCategorizeRevenueTier ==
    /\ tier_ret = NotCalled
    /\ tier_ret' = categorize_revenue_tier(revenue_code)
    /\ UNCHANGED <<employee_code, revenue_code, size_ret, year_input,
                   stage_ret, normvars, dbvars, auxvars>>

CallCategorizeInvestmentStage ==
    /\ stage_ret = NotCalled
    /\ stage_ret' = categorize_investment_stage(year_input)
    /\ UNCHANGED <<employee_code, revenue_code, size_ret, tier_ret,
                   year_input, normvars, dbvars, auxvars>>

NextCat ==
    \/ CallCategorizeCompanySize
    \/ CallCategorizeRevenueTier
    \/ CallCategorizeInvestmentStage

SpecCat == InitCat /\ [][NextCat]_vars

-----------------------------------------------------------------------------
(* The database: src/src/models/database_models_v2.py (companies,           *)
(* company_pe_investments, pe_firms) and src/database_models.py             *)
(* (portfolio_companies).  A pe_firms row is identified by its unique name. *)

MaxRuns == 3
MaxUpdates == 1

n_Ac == <<"A","c">>
n_AC == <<"A","C">>
n_Be == <<"B","e">>

CompanyNames == {n_Ac, n_AC, n_Be}

Max(S) == CHOOSE x \in S : \A y \in S : y <= x

\* the next value of an autoincrement primary key
NextId(rows) == IF rows = {} THEN 1 ELSE Max({r.id : r \in rows}) + 1

\* Company(name=..., website=..., description=...) with the column defaults
Company(id, name, website, description) ==
    [id |-> id, name |-> name, website |-> website, description |-> description,
     is_public |-> FALSE]

\* CompanyPEInvestment(company_id=..., pe_firm_id=..., raw_status=..., computed_status=...)
CompanyPEInvestment(id, company_id, pe_firm_id, raw_status, computed_status) ==
    [id |-> id, company_id |-> company_id, pe_firm_id |-> pe_firm_id,
     raw_status |-> raw_status, computed_status |-> computed_status,
     exit_type |-> None]

\* a session: d is what its queries see (flushed changes included), saved
\* is the state at its last commit, raised tells that an exception left the
\* loop over the records
Begin(d) == [d |-> d, saved |-> d, raised |-> FALSE, pending |-> <<>>]
Commit(s) == [s EXCEPT !.saved = s.d]
Rollback(s) == [s EXCEPT !.d = s.saved, !.pending = <<>>]
Raise(s) == [s EXCEPT !.raised = TRUE]

IntegrityError == [error |-> "IntegrityError"]
\* psycopg2 DataError: value too long for type character varying(50)
DataError == [error |-> "DataError"]
IsError(x) == x \in {IntegrityError, DataError}

\* raw_status = Column(String(50))
RAW_STATUS_LENGTH == 50

\* session.query(Company).filter_by(name=name).first(): the rows the query
\* may return (it has no ORDER BY); empty when it returns None
QueryCompanyByName(d, name) == {c \in d.companies : c.name = name}

\* Mutant: the lookup and the constraint also match the row id against the
\* company id.
HasInvestment_WrongKey(d, company_id, pe_firm_id) ==
    \E i \in d.investments :
        i.company_id = company_id /\ i.pe_firm_id = pe_firm_id /\ i.id = company_id

\* a row of company_pe_investments with this (company_id, pe_firm_id): what
\* filter_by(company_id=, pe_firm_id=).first() finds and what the constraint
\* uq_company_pe_firm forbids a second of
HasInvestment(d, company_id, pe_firm_id) ==
    \E i \in d.investments : i.company_id = company_id /\ i.pe_firm_id = pe_firm_id

GetInvestment(d, company_id, pe_firm_id) ==
    CHOOSE i \in d.investments : i.company_id = company_id /\ i.pe_firm_id = pe_firm_id

\* INSERT INTO companies: name is NOT NULL
InsertCompany(d, c) ==
    IF c.name = NoneS THEN IntegrityError
    ELSE [d EXCEPT !.companies = @ \cup {c}]

\* INSERT INTO company_pe_investments under UniqueConstraint uq_company_pe_firm
\* and raw_status VARCHAR(50), on the PostgreSQL database the migration
\* scripts connect to
InsertInvestment(d, i) ==
    IF HasInvestment(d, i.company_id, i.pe_firm_id) THEN IntegrityError
    ELSE IF i.raw_status # NoneS /\ Len(i.raw_status) > RAW_STATUS_LENGTH
    THEN DataError
    ELSE [d EXCEPT !.investments = @ \cup {i}]

\* UPDATE of one row
ReplaceCompany(d, old, new) == [d EXCEPT !.companies = (@ \ {old}) \cup {new}]
ReplaceInvestment(d, old, new) == [d EXCEPT !.investments = (@ \ {old}) \cup {new}]

\* pe_firm = query(PEFirm).filter_by(name=...).first(); if not pe_firm:
\* session.add(PEFirm(name=...)); session.commit()
GetOrCreateFirm(s, name) ==
    IF name \in s.d.pe_firms THEN s
    ELSE Commit([s EXCEPT !.d.pe_firms = @ \cup {name}])

-----------------------------------------------------------------------------
(* src/scripts/setup/import_accel_portfolio.py *)

\* lines 92-110: the investment relationship of company c, then the commit
import_accel_link(s, c) ==
    IF ~HasInvestment(s.d, c.id, "Accel")
    THEN LET d1 == InsertInvestment(s.d,
                       CompanyPEInvestment(NextId(s.d.investments), c.id, "Accel",
                                           s_Current, "Active"))
         IN  IF IsError(d1) THEN Rollback(s)
             ELSE Commit([s EXCEPT !.d = d1])
    ELSE Commit(s)

\* lines 54-116: the loop body for one record of the JSON file
import_accel_record(s, rec) ==
    LET existing == QueryCompanyByName(s.d, rec.name) IN
    IF existing # {}
    THEN { LET c1 == [c EXCEPT
                        !.website = IF Truthy(rec.website) THEN rec.website ELSE @,
                        !.description =
                            IF Truthy(rec.description) /\ ~Truthy(@)
                            THEN rec.description ELSE @]
           IN  import_accel_link([s EXCEPT !.d = ReplaceCompany(s.d, c, c1)], c1)
           : c \in existing }
    ELSE LET c == Company(NextId(s.d.companies), rec.name, rec.website,
                          rec.description)
             d1 == InsertCompany(s.d, c)
         IN  IF IsError(d1) THEN {Rollback(s)}
             ELSE {import_accel_link([s EXCEPT !.d = d1], c)}

-----------------------------------------------------------------------------
(* src/scripts/setup/import_eqt_portfolio.py *)

\* lines 112-139
import_eqt_link(s, c) ==
    IF ~HasInvestment(s.d, c.id, "EQT")
    THEN LET d1 == InsertInvestment(s.d,
                       CompanyPEInvestment(NextId(s.d.investments), c.id, "EQT",
                                           s_Current, "Active"))
         IN  IF IsError(d1) THEN Rollback(s)
             ELSE Commit([s EXCEPT !.d = d1])
    ELSE Commit(s)

\* lines 54-145
import_eqt_record(s, rec) ==
    LET existing == QueryCompanyByName(s.d, rec.name) IN
    IF existing # {}
    THEN { LET c1 == [c EXCEPT
                        !.website =
                            IF Truthy(rec.website) /\ ~Truthy(@)
                            THEN rec.website ELSE @,
                        !.description =
                            IF Truthy(rec.description) /\ ~Truthy(@)
                            THEN rec.description ELSE @]
           IN  import_eqt_link([s EXCEPT !.d = ReplaceCompany(s.d, c, c1)], c1)
           : c \in existing }
    ELSE LET c == Company(NextId(s.d.companies), rec.name, rec.website,
                          rec.description)
             d1 == InsertCompany(s.d, c)
         IN  IF IsError(d1) THEN {Rollback(s)}
             ELSE {import_eqt_link([s EXCEPT !.d = d1], c)}

-----------------------------------------------------------------------------
(* src/scripts/setup/import_bessemer_portfolio.py *)

BESSEMER == "Bessemer Venture Partners"

\* lines 117-123: computed_status from raw_status
bessemer_computed_status(raw_status) ==
    IF raw_status \in {s_Current, s_Active} THEN "Active"
    ELSE IF raw_status \in {s_Exit, s_Exited, s_Acquired, s_IPO} THEN "Exited"
    ELSE "Active"

\* Mutant: an existing row's computed_status is recomputed from the new
\* raw_status.
import_bessemer_link_Recompute(s, c, rec) ==
    IF ~HasInvestment(s.d, c.id, BESSEMER)
    THEN LET d1 == InsertInvestment(s.d,
                       CompanyPEInvestment(NextId(s.d.investments), c.id, BESSEMER,
                           rec.raw_status, bessemer_computed_status(rec.raw_status)))
         IN  IF IsError(d1) THEN Raise(s)
             ELSE Commit([s EXCEPT !.d = d1])
    ELSE LET i == GetInvestment(s.d, c.id, BESSEMER)
             i1 == [i EXCEPT !.raw_status =
                        IF TruthyS(rec.raw_status) THEN rec.raw_status ELSE @,
                             !.computed_status =
                        bessemer_computed_status(rec.raw_status)]
         IN  Commit([s EXCEPT !.d = ReplaceInvestment(s.d, i, i1)])

\* lines 95-145
import_bessemer_link(s, c, rec) ==
    IF ~HasInvestment(s.d, c.id, BESSEMER)
    THEN LET d1 == InsertInvestment(s.d,
                       CompanyPEInvestment(NextId(s.d.investments), c.id, BESSEMER,
                           rec.raw_status, bessemer_computed_status(rec.raw_status)))
         IN  IF IsError(d1) THEN Raise(s)
             ELSE Commit([s EXCEPT !.d = d1])
    ELSE LET i == GetInvestment(s.d, c.id, BESSEMER)
             i1 == [i EXCEPT !.raw_status =
                        IF TruthyS(rec.raw_status) THEN rec.raw_status ELSE @]
         IN  Commit([s EXCEPT !.d = ReplaceInvestment(s.d, i, i1)])

\* lines 55-145: the loop body (no try around it)
import_bessemer_record(s, rec) ==
    IF ~TruthyS(rec.name) THEN {s}
    ELSE
    LET existing == QueryCompanyByName(s.d, rec.name) IN
    IF existing # {}
    THEN { LET c1 == [c EXCEPT
                        !.website = IF Truthy(rec.website) THEN rec.website ELSE @]
           IN  import_bessemer_link([s EXCEPT !.d = ReplaceCompany(s.d, c, c1)],
                                    c1, rec)
           : c \in existing }
    ELSE LET c == Company(NextId(s.d.companies), rec.name, rec.website, None)
             d1 == InsertCompany(s.d, c)
         IN  IF IsError(d1) THEN {Raise(s)}
             ELSE {import_bessemer_link([s EXCEPT !.d = d1], c, rec)}

-----------------------------------------------------------------------------
(* src/src/scrapers/bain_scraper.py: save_to_database *)

BAIN == "Bain Capital Private Equity"

\* lines 297-324: the new row gets no computed_status
bain_save_link(s, c, rec) ==
    IF ~HasInvestment(s.d, c.id, BAIN)
    THEN LET d1 == InsertInvestment(s.d,
                       CompanyPEInvestment(NextId(s.d.investments), c.id, BAIN,
                                           rec.raw_status, None))
         IN  IF IsError(d1) THEN Rollback(s)
             ELSE Commit([s EXCEPT !.d = d1])
    ELSE LET i == GetInvestment(s.d, c.id, BAIN)
             i1 == [i EXCEPT !.raw_status =
                        IF TruthyS(rec.raw_status) THEN rec.raw_status ELSE @]
         IN  Commit([s EXCEPT !.d = ReplaceInvestment(s.d, i, i1)])

\* lines 272-329
bain_save_record(s, rec) ==
    LET existing == QueryCompanyByName(s.d, rec.name) IN
    IF existing # {}
    THEN { LET c1 == [c EXCEPT
                        !.description =
                            IF Truthy(rec.description) /\ ~Truthy(@)
                            THEN rec.description ELSE @,
                        !.website =
                            IF Truthy(rec.website) /\ ~Truthy(@)
                            THEN rec.website ELSE @]
           IN  bain_save_link([s EXCEPT !.d = ReplaceCompany(s.d, c, c1)], c1, rec)
           : c \in existing }
    ELSE LET c == Company(NextId(s.d.companies), rec.name, rec.website,
                          rec.description)
             d1 == InsertCompany(s.d, c)
         IN  IF IsError(d1) THEN {Rollback(s)}
             ELSE {bain_save_link([s EXCEPT !.d = d1], c, rec)}

-----------------------------------------------------------------------------
(* src/src/scrapers/bain_current_scraper.py: save_to_database *)

\* lines 143-174: the investment is built from ids only, so self.company is
\* not loaded when normalize_status runs; nothing is committed in the loop
bain_current_record(s, rec) ==
    LET existing == QueryCompanyByName(s.d, rec.name)
        link(d1, c) ==
            IF HasInvestment(d1, c.id, BAIN) THEN [s EXCEPT !.d = d1]
            ELSE LET d2 == InsertInvestment(d1,
                               normalize_status(
                                   CompanyPEInvestment(NextId(d1.investments), c.id,
                                                       BAIN, s_Current, None),
                                   NoCompany))
                 IN  IF IsError(d2) THEN Raise(s)
                     ELSE [s EXCEPT !.d = d2]
    IN
    IF existing # {}
    THEN { link(s.d, c) : c \in existing }
    ELSE LET c == Company(NextId(s.d.companies), rec.name, None, None)
             d1 == InsertCompany(s.d, c)
         IN  IF IsError(d1) THEN {Raise(s)}
             ELSE {link(d1, c)}

-----------------------------------------------------------------------------
(* src/src/scrapers/bain_former_scraper.py: save_former_companies *)

\* lines 142-146: the lower-cased names of the firm's companies
bain_existing_names(d) ==
    { lower(c.name) : c \in { c \in d.companies : HasInvestment(d, c.id, BAIN) } }

\* lines 168-198
bain_former_record(s, rec) ==
    LET existing == QueryCompanyByName(s.d, rec.name)
        link(d1, c) ==
            IF HasInvestment(d1, c.id, BAIN) THEN [s EXCEPT !.d = d1]
            ELSE LET d2 == InsertInvestment(d1,
                               normalize_status(
                                   CompanyPEInvestment(NextId(d1.investments), c.id,
                                                       BAIN, s_Exit, None),
                                   NoCompany))
                 IN  IF IsError(d2) THEN Raise(s)
                     ELSE [s EXCEPT !.d = d2]
    IN
    IF existing # {}
    THEN { link(s.d, c) : c \in existing }
    ELSE LET c == Company(NextId(s.d.companies), rec.name, None, None)
             d1 == InsertCompany(s.d, c)
         IN  IF IsError(d1) THEN {Raise(s)}
             ELSE {link(d1, c)}

-----------------------------------------------------------------------------
(* src/src/scrapers/apax_scraper.py: save_to_database *)

APAX == "Apax Partners"

\* lines 127-166: the investment is built with company=company, so
\* normalize_status sees the company
apax_save_record(s, rec) ==
    LET existing == QueryCompanyByName(s.d, rec.name)
        link(d1, c) ==
            IF HasInvestment(d1, c.id, APAX) THEN [s EXCEPT !.d = d1]
            ELSE LET d2 == InsertInvestment(d1,
                               normalize_status(
                                   CompanyPEInvestment(NextId(d1.investments), c.id,
                                                       APAX, s_Current, None),
                                   c))
                 IN  IF IsError(d2) THEN Raise(s)
                     ELSE [s EXCEPT !.d = d2]
    IN
    IF existing # {}
    THEN { link(s.d, c) : c \in existing }
    ELSE LET c == Company(NextId(s.d.companies), rec.name, rec.website,
                          rec.description)
             d1 == InsertCompany(s.d, c)
         IN  IF IsError(d1) THEN {Raise(s)}
             ELSE {link(d1, c)}

-----------------------------------------------------------------------------
(* src/src/scrapers/advent_scraper.py: save_to_database *)

ADVENT == "Advent International"

\* lines 205-265: the company is looked up by website first, then by name
advent_save_record(s, rec) ==
    LET by_website ==
            IF Truthy(rec.website)
            THEN {c \in s.d.companies : c.website = rec.website}
            ELSE {}
        existing ==
            IF by_website # {} THEN by_website
            ELSE QueryCompanyByName(s.d, rec.name)
        link(d1, c) ==
            IF HasInvestment(d1, c.id, ADVENT) THEN [s EXCEPT !.d = d1]
            ELSE LET d2 == InsertInvestment(d1,
                               normalize_status(
                                   CompanyPEInvestment(NextId(d1.investments), c.id,
                                                       ADVENT, s_Active, None),
                                   c))
                 IN  IF IsError(d2) THEN Raise(s)
                     ELSE [s EXCEPT !.d = d2]
    IN
    IF existing # {}
    THEN { LET c1 == [c EXCEPT
                        !.description =
                            IF ~Truthy(@) /\ Truthy(rec.description)
                            THEN rec.description ELSE @,
                        !.website =
                            IF ~Truthy(@) /\ Truthy(rec.website)
                            THEN rec.website ELSE @]
           IN  link(ReplaceCompany(s.d, c, c1), c1)
           : c \in existing }
    ELSE LET c == Company(NextId(s.d.companies), rec.name, rec.website,
                          rec.description)
             d1 == InsertCompany(s.d, c)
         IN  IF IsError(d1) THEN {Raise(s)}
             ELSE {link(d1, c)}

-----------------------------------------------------------------------------
(* src/scripts/setup/import_advent_portfolio.py *)

\* lines 141-209: the loop body.  CompanyPEInvestment(is_current=True) names
\* no column of the model class and raises TypeError, so a record whose
\* company has no Advent investment ends in the except branch, whose
\* rollback discards everything since the last commit (the commit of every
\* 50th record is beyond the files of the model).
import_advent_record(s, rec) ==
    IF ~TruthyS(rec.name) THEN {s}
    ELSE
    LET existing == QueryCompanyByName(s.d, rec.name) IN
    IF existing # {}
    THEN { LET c1 == [c EXCEPT
                        !.website = IF Truthy(rec.website) THEN rec.website ELSE @,
                        !.description =
                            IF Truthy(rec.description) /\ ~Truthy(@)
                            THEN rec.description ELSE @]
           IN  IF HasInvestment(s.d, c.id, ADVENT)
               THEN [s EXCEPT !.d = ReplaceCompany(s.d, c, c1)]
               ELSE Rollback(s)
           : c \in existing }
    ELSE {Rollback(s)}

-----------------------------------------------------------------------------
(* src/scripts/setup/import_a16z_portfolio.py *)

A16Z == "Andreessen Horowitz"

\* lines 63-147: the loop body.  Company(industry=...) and
\* CompanyPEInvestment(investment_date=..., exit_date=..., status=...,
\* notes=...) name no column of the model classes and raise TypeError; the
\* exception leaves the loop for the outer except (the commit of every
\* 10th record is beyond the files of the model).
import_a16z_record(s, rec) ==
    LET existing == QueryCompanyByName(s.d, rec.name) IN
    IF existing # {}
    THEN { LET c1 == [c EXCEPT
                        !.website = IF Truthy(rec.website) THEN rec.website ELSE @]
           IN  IF HasInvestment(s.d, c.id, A16Z)
               THEN [s EXCEPT !.d = ReplaceCompany(s.d, c, c1)]
               ELSE Raise([s EXCEPT !.d = ReplaceCompany(s.d, c, c1)])
           : c \in existing }
    ELSE {Raise(s)}

-----------------------------------------------------------------------------
(* src/import_to_database.py: import_json_to_db (v1 schema) *)

\* PortfolioCompany(pe_firm_id=..., name=..., status=...)
PortfolioCompany(id, pe_firm_id, name, status) ==
    [id |-> id, pe_firm_id |-> pe_firm_id, name |-> name, status |-> status]

\* lines 61-109
import_json_record(s, pe_firm, rec) ==
    LET existing == { r \in s.d.portfolio_companies :
                        r.pe_firm_id = pe_firm /\ r.name = rec.name }
    IN
    IF existing # {}
    THEN { [s EXCEPT !.d.portfolio_companies =
                (@ \ {r}) \cup {[r EXCEPT !.status = rec.raw_status]}]
           : r \in existing }
    ELSE IF rec.name = NoneS THEN {Raise(s)}
    ELSE { [s EXCEPT !.d.portfolio_companies =
                @ \cup {PortfolioCompany(NextId(s.d.portfolio_companies), pe_firm,
                                         rec.name, rec.raw_status)}] }

-----------------------------------------------------------------------------
(* src/scripts/setup/migrate_ga_smart.py *)

GA == "General Atlantic"

w_ongoing  == <<"o","n","g","o","i","n","g">>
w_exit     == <<"e","x","i","t">>
w_exited   == <<"e","x","i","t","e","d">>
w_sold     == <<"s","o","l","d">>
w_acquired == <<"a","c","q","u","i","r","e","d">>

\* lines 21-32: the script's own normalize_status
smart_normalize_status(raw_status) ==
    IF ~TruthyS(raw_status) THEN "Active"
    ELSE IF \E word \in {w_active, w_current, w_ongoing} :
                Contains(lower(raw_status), word) THEN "Active"
    ELSE IF \E word \in {w_exit, w_exited, w_sold, w_acquired} :
                Contains(lower(raw_status), word) THEN "Exit"
    ELSE "Active"

\* ORDER BY name: the collation of the names of the model
NameOrder == <<n_AC, n_Ac, n_Be>>
NameRank(name) == CHOOSE k \in 1..Len(NameOrder) : NameOrder[k] = name

RECURSIVE SortRows(_)
SortRows(rows) ==
    IF rows = {} THEN <<>>
    ELSE LET r == CHOOSE r \in rows : \A q \in rows :
                    \/ NameRank(r.name) < NameRank(q.name)
                    \/ NameRank(r.name) = NameRank(q.name) /\ r.id <= q.id
         IN  <<r>> \o SortRows(rows \ {r})

\* session.flush(): the INSERTs of the investments added to the session
\* since the last flush
RECURSIVE FlushPending(_)
FlushPending(s) ==
    IF s.pending = <<>> THEN s
    ELSE LET p == Head(s.pending)
             d1 == InsertInvestment(s.d,
                       CompanyPEInvestment(NextId(s.d.investments), p.company_id, GA,
                                           p.raw_status, p.computed_status))
         IN  IF IsError(d1) THEN d1
             ELSE FlushPending([s EXCEPT !.d = d1, !.pending = Tail(@)])

\* lines 139-144 and 190-195: try: session.commit() except: session.rollback()
CommitFlush(s) ==
    LET f == FlushPending(s) IN
    IF IsError(f) THEN Rollback(s) ELSE Commit(f)

\* session.add(investment): nothing is sent before the next flush
AddInvestment(s, company_id, status) ==
    [s EXCEPT !.pending = Append(@, [company_id |-> company_id,
                                      raw_status |-> status,
                                      computed_status |-> smart_normalize_status(status)])]

\* lines 95-136: a company and its investment for a row of the v1 table;
\* session.flush() sends the company and the investment of the row before.
\* The commit of every 25th row is beyond the files of the model.
smart_new_record(s, row) ==
    LET c == Company(NextId(s.d.companies), row.name, None, None)
        d1 == InsertCompany(s.d, c)
        f == IF IsError(d1) THEN d1 ELSE FlushPending([s EXCEPT !.d = d1])
    IN  IF IsError(f) THEN {Rollback(s)}
        ELSE {AddInvestment(f, c.id, row.status)}

\* lines 148-187: the investment alone, for a company that exists; the
\* query autoflushes the investment of the row before
smart_existing_record(s, row) ==
    LET f == FlushPending(s) IN
    IF IsError(f) THEN {Rollback(s)}
    ELSE
    LET found == QueryCompanyByName(f.d, row.name) IN
    IF found = {} THEN {f}
    ELSE { IF HasInvestment(f.d, c.id, GA) THEN f
           ELSE AddInvestment(f, c.id, row.status)
           : c \in found }

-----------------------------------------------------------------------------
(* src/scripts/setup/add_missing_ga_investments.py *)

\* lines 15-27: the script's own normalize_status
missing_normalize_status(raw_status) ==
    IF ~TruthyS(raw_status) THEN "unknown"
    ELSE IF \E word \in {w_current, w_active, w_portfolio} :
                Contains(lower(raw_status), word) THEN "current"
    ELSE IF \E word \in {w_exit, w_exited, <<"f","o","r","m","e","r">>,
                         w_acquired, <<"i","p","o">>} :
                Contains(lower(raw_status), word) THEN "exited"
    ELSE "unknown"

\* lines 47-53: the companies to link, in the names of the model (a name
\* whose stored spelling differs in letter case)
missing_companies == << [name |-> n_Ac, raw_status |-> s_Portfolio] >>

\* lines 58-88: the company is looked up case-insensitively
add_missing_record(s, rec) ==
    LET found == {c \in s.d.companies : lower(c.name) = lower(rec.name)} IN
    IF found = {} THEN {s}
    ELSE { IF HasInvestment(s.d, c.id, GA) THEN s
           ELSE LET d1 == InsertInvestment(s.d,
                              CompanyPEInvestment(NextId(s.d.investments), c.id, GA,
                                  rec.raw_status,
                                  missing_normalize_status(rec.raw_status)))
                IN  IF IsError(d1) THEN Raise(s)
                    ELSE [s EXCEPT !.d = d1]
           : c \in found }

-----------------------------------------------------------------------------
(* src/backend/api_v2.py: PUT /api/companies/{company_id} *)

\* the request bodies: CompanyUpdate.dict(exclude_unset=True)
CompanyUpdates ==
    {[name |-> n] : n \in CompanyNames} \cup {[is_public |-> b] : b \in BOOLEAN}
        \cup {[website |-> "https://admin.example"]}

\* lines 520-523: setattr(company, field, value) for every field provided
update_company(d, company, update_data) ==
    ReplaceCompany(d, company,
        [field \in DOMAIN company |->
            IF field \in DOMAIN update_data THEN update_data[field]
            ELSE company[field]])

\* Mutant: a request without the header is let through.
verify_admin_MissingKeyPasses(x_admin_key) ==
    x_admin_key = None \/ x_admin_key = ADMIN_API_KEY

\* lines 482-486: TRUE when the dependency returns, FALSE when it raises
\* HTTPException(403); x_admin_key is None when the header is missing
verify_admin(x_admin_key) ==
    ~(~Truthy(x_admin_key) \/ x_admin_key # ADMIN_API_KEY)

\* lines 507-539 behind Depends(verify_admin): the tables and the status
\* code after PUT /api/companies/{company_id}
put_update_company(d, t, x_admin_key, company_id, company_update) ==
    IF ~verify_admin(x_admin_key) THEN [d |-> d, tags |-> t, status_code |-> 403]
    ELSE IF \A c \in d.companies : c.id # company_id
    THEN [d |-> d, tags |-> t, status_code |-> 404]
    ELSE LET company == CHOOSE c \in d.companies : c.id = company_id IN
         [d |-> update_company(d, company, company_update), tags |-> t,
          status_code |-> 200]

\* lines 150-182: GET /api/stats, the three investment counts
get_stats(d) ==
    [total_investments |-> Cardinality(d.investments),
     active_investments |->
         Cardinality({i \in d.investments : i.computed_status = "Active"}),
     exited_investments |->
         Cardinality({i \in d.investments : i.computed_status = "Exit"})]

\* lines 185-209: GET /api/pe-firms, one entry per row of pe_firms
get_pe_firms(d) ==
    { [name |-> firm,
       total_investments |->
           Cardinality({i \in d.investments : i.pe_firm_id = firm}),
       active_count |->
           Cardinality({i \in d.investments :
                           i.pe_firm_id = firm /\ i.computed_status = "Active"}),
       exit_count |->
           Cardinality({i \in d.investments :
                           i.pe_firm_id = firm /\ i.computed_status = "Exit"})]
      : firm \in d.pe_firms }

\* lines 542-568 behind Depends(verify_admin): session.delete(company)
\* cascades to the company's investments and tags
delete_company(d, t, x_admin_key, company_id) ==
    IF ~verify_admin(x_admin_key) THEN [d |-> d, tags |-> t, status_code |-> 403]
    ELSE IF \A c \in d.companies : c.id # company_id
    THEN [d |-> d, tags |-> t, status_code |-> 404]
    ELSE [d |-> [d EXCEPT
                   !.companies = {c \in @ : c.id # company_id},
                   !.investments = {i \in @ : i.company_id # company_id}],
          tags |-> {g \in t : g.company_id # company_id},
          status_code |-> 200]

-----------------------------------------------------------------------------
(* The scraped files and the script runs *)

Rec(name, raw_status) ==
    [name |-> name, raw_status |-> raw_status, website |-> None,
     description |-> None]

\* the JSON files the scrapers leave for the import scripts
ScrapedFiles ==
    { <<[Rec(n_Ac, s_Current) EXCEPT !.website = "https://ac.example"],
        Rec(n_Be, s_Exit)>>,
      <<Rec(n_Ac, s_Exit)>>,
      <<[Rec(n_AC, s_Current) EXCEPT !.website = "https://ac.example"]>>,
      <<Rec(NoneS, s_Current), Rec(n_Be, s_Current)>> }

\* the files import_json_to_db is given
V1Files ==
    { [pe_firm |-> GA,
       companies |-> <<Rec(n_Ac, s_Active), Rec(n_Be, s_Exited)>>],
      [pe_firm |-> GA,
       companies |-> <<Rec(n_Ac, s_Long), Rec(n_Be, s_Current)>>],
      [pe_firm |-> BESSEMER, companies |-> <<Rec(n_Be, s_Current)>>],
      [pe_firm |-> A16Z, companies |-> <<Rec(n_Ac, s_Active)>>] }

\* the loop body of each script
LoopBody(script, s, rec) ==
    CASE script = "import_accel"     -> import_accel_record(s, rec)
      [] script = "import_eqt"       -> import_eqt_record(s, rec)
      [] script = "import_bessemer"  -> import_bessemer_record(s, rec)
      [] script = "bain_save"        -> bain_save_record(s, rec)
      [] script = "bain_current"     -> bain_current_record(s, rec)
      [] script = "bain_former"      -> bain_former_record(s, rec)
      [] script = "apax_save"        -> apax_save_record(s, rec)
      [] script = "advent_save"      -> advent_save_record(s, rec)
      [] script = "import_advent"    -> import_advent_record(s, rec)
      [] script = "import_json_GA"   -> import_json_record(s, GA, rec)
      [] script = "import_json_BVP"  -> import_json_record(s, BESSEMER, rec)
      [] script = "import_json_A16Z" -> import_json_record(s, A16Z, rec)
      [] script = "import_a16z"      -> import_a16z_record(s, rec)
      [] script = "smart_new"        -> smart_new_record(s, rec)
      [] script = "smart_existing"   -> smart_existing_record(s, rec)
      [] script = "add_missing_ga"   -> add_missing_record(s, rec)

\* for record in data: ... (left when an exception is not caught in the body)
RECURSIVE RunLoop(_, _, _)
RunLoop(script, S, data) ==
    IF data = <<>> THEN S
    ELSE RunLoop(script,
                 UNION { IF s.raised THEN {s} ELSE LoopBody(script, s, Head(data))
                         : s \in S },
                 Tail(data))

\* the end of a script that commits after its loop and rolls back in its
\* outer except
CommitOrRollback(S) == { IF s.raised THEN Rollback(s) ELSE Commit(s) : s \in S }

\* the firm row is added or updated and flushed, not committed
FlushFirm(s, name) == [s EXCEPT !.d.pe_firms = @ \cup {name}]

\* migrate_ga_smart.py, lines 34-195
smart_migrate(d) ==
    IF GA \notin d.pe_firms THEN {Begin(d)}
    ELSE
    LET existing_names == { lower(c.name) : c \in d.companies }
        portfolio_companies ==
            SortRows({ r \in d.portfolio_companies : r.pe_firm_id = GA })
        new_companies ==
            SelectSeq(portfolio_companies,
                      LAMBDA row : lower(row.name) \notin existing_names)
        existing_companies ==
            SelectSeq(portfolio_companies,
                      LAMBDA row : lower(row.name) \in existing_names)
        created ==
            { CommitFlush(s) : s \in RunLoop("smart_new", {Begin(d)}, new_companies) }
    IN  { CommitFlush(s) : s \in RunLoop("smart_existing", created, existing_companies) }

\* bain_former_scraper.py, lines 129-228
save_former_companies(d, all_companies) ==
    IF BAIN \notin d.pe_firms THEN {Begin(d)}
    ELSE IF \E k \in 1..Len(all_companies) : all_companies[k].name = NoneS
    THEN {Begin(d)}
    ELSE
    LET existing_names == bain_existing_names(d)
        former_companies ==
            SelectSeq(all_companies,
                      LAMBDA rec : lower(rec.name) \notin existing_names)
    IN  CommitOrRollback(RunLoop("bain_former", {Begin(d)}, former_companies))

\* one run of a script on a file: the sessions it may end with
RunScript(script, d, data) ==
    CASE script = "import_accel" ->
            RunLoop(script, {GetOrCreateFirm(Begin(d), "Accel")}, data)
      [] script = "import_eqt" ->
            RunLoop(script, {GetOrCreateFirm(Begin(d), "EQT")}, data)
      [] script = "import_bessemer" ->
            \* PEFirm(created_at=...) raises TypeError when the firm is missing
            IF BESSEMER \notin d.pe_firms THEN {Begin(d)}
            ELSE { IF s.raised THEN Rollback(s) ELSE s
                   : s \in RunLoop(script, {Begin(d)}, data) }
      [] script = "bain_save" ->
            RunLoop(script, {GetOrCreateFirm(Begin(d), BAIN)}, data)
      [] script = "bain_current" ->
            CommitOrRollback(
                RunLoop(script, {GetOrCreateFirm(Begin(d), BAIN)}, data))
      [] script = "bain_former" -> save_former_companies(d, data)
      [] script = "apax_save" ->
            CommitOrRollback(RunLoop(script, {FlushFirm(Begin(d), APAX)}, data))
      [] script = "advent_save" ->
            CommitOrRollback(RunLoop(script, {FlushFirm(Begin(d), ADVENT)}, data))
      [] script = "import_advent" ->
            \* PEFirm(website=..., description=...) raises TypeError when the
            \* firm is missing
            IF ADVENT \notin d.pe_firms THEN {Begin(d)}
            ELSE CommitOrRollback(RunLoop(script, {Begin(d)}, data))
      [] script = "import_a16z" ->
            \* PEFirm(website=..., created_at=...) raises TypeError when the
            \* firm is missing
            IF A16Z \notin d.pe_firms THEN {Begin(d)}
            ELSE CommitOrRollback(RunLoop(script, {Begin(d)}, data))
      [] script = "import_json" ->
            CommitOrRollback(
                RunLoop(CASE data.pe_firm = GA -> "import_json_GA"
                          [] data.pe_firm = BESSEMER -> "import_json_BVP"
                          [] data.pe_firm = A16Z -> "import_json_A16Z",
                        {FlushFirm(Begin(d), data.pe_firm)}, data.companies))
      [] script = "smart_migrate" -> smart_migrate(d)
      [] script = "add_missing_ga" ->
            IF GA \notin d.pe_firms THEN {Begin(d)}
            ELSE CommitOrRollback(
                     RunLoop(script, {Begin(d)}, missing_companies))

\* the rows of the two v2 tables, without their mutable columns
Rows(d) ==
    [companies |-> {<<c.id, c.name>> : c \in d.companies},
     investments |-> {<<i.id, i.company_id, i.pe_firm_id>> : i \in d.investments}]

\* A script runs to its end; session.close() drops what it did not commit.
\* The observer may start following a run, and then only lets the same
\* script run again on the same file.
Invoke(script, data) ==
    /\ runs < MaxRuns
    /\ \E s \in RunScript(script, db, data) : db' = s.saved
    /\ runs' = runs + 1
    /\ \/ /\ track.phase = "free"
          /\ \/ track' = track
             \/ track' = [phase |-> "once", script |-> script, data |-> data,
                          rows |-> Rows(db')]
       \/ /\ track.phase = "once"
          /\ track.script = script
          /\ track.data = data
          /\ track' = [track EXCEPT !.phase = "twice"]
    /\ UNCHANGED <<updates, normvars, catvars, auxvars>>

ImportAccel      == \E data \in ScrapedFiles : Invoke("import_accel", data)
ImportEqt        == \E data \in ScrapedFiles : Invoke("import_eqt", data)
ImportBessemer   == \E data \in ScrapedFiles : Invoke("import_bessemer", data)
BainSave         == \E data \in ScrapedFiles : Invoke("bain_save", data)
BainCurrentSave  == \E data \in ScrapedFiles : Invoke("bain_current", data)
BainFormerSave   == \E data \in ScrapedFiles : Invoke("bain_former", data)
ApaxSave         == \E data \in ScrapedFiles : Invoke("apax_save", data)
AdventSave       == \E data \in ScrapedFiles : Invoke("advent_save", data)
ImportAdvent     == \E data \in ScrapedFiles : Invoke("import_advent", data)
ImportA16z       == \E data \in ScrapedFiles : Invoke("import_a16z", data)
ImportJsonToDb   == \E data \in V1Files : Invoke("import_json", data)
SmartMigrate     == Invoke("smart_migrate", <<>>)
AddMissingGa     == Invoke("add_missing_ga", <<>>)

\* PUT /api/companies/{company_id} with the header X-Admin-Key
PutCompany(x_admin_key, company_id, company_update) ==
    /\ track.phase = "free"
    /\ updates < MaxUpdates
    /\ LET r == put_update_company(db, tags, x_admin_key, company_id,
                                   company_update) IN
          /\ db' = r.d
          /\ tags' = r.tags
          /\ response' = [status_code |-> r.status_code]
    /\ request' = [method |-> "PUT", x_admin_key |-> x_admin_key,
                   company_id |-> company_id]
    /\ updates' = updates + 1
    /\ UNCHANGED <<ADMIN_API_KEY, runs, track, normvars, catvars, geovars, enrvars, extvars>>

\* DELETE /api/companies/{company_id} with the header X-Admin-Key
DeleteCompany(x_admin_key, company_id) ==
    /\ track.phase = "free"
    /\ updates < MaxUpdates
    /\ LET r == delete_company(db, tags, x_admin_key, company_id) IN
          /\ db' = r.d
          /\ tags' = r.tags
          /\ response' = [status_code |-> r.status_code]
    /\ request' = [method |-> "DELETE", x_admin_key |-> x_admin_key,
                   company_id |-> company_id]
    /\ updates' = updates + 1
    /\ UNCHANGED <<ADMIN_API_KEY, runs, track, normvars, catvars, geovars, enrvars, extvars>>

\* the administrator edits a company
UpdateCompany ==
    \E company \in db.companies, update_data \in CompanyUpdates :
        PutCompany(ADMIN_API_KEY, company.id, update_data)

Init ==
    /\ IdleDB
    /\ IdleNorm
    /\ IdleCat
    /\ IdleAux

Next ==
    \/ ImportAccel
    \/ ImportEqt
    \/ ImportBessemer
    \/ BainSave
    \/ BainCurrentSave
    \/ BainFormerSave
    \/ ApaxSave
    \/ AdventSave
    \/ ImportAdvent
    \/ ImportA16z
    \/ ImportJsonToDb
    \/ SmartMigrate
    \/ AddMissingGa
    \/ UpdateCompany

Spec == Init /\ [][Next]_vars

-----------------------------------------------------------------------------
(* Specification SpecAdmin: admin requests against an imported database *)

MaxCompanyId == 3

NoRows ==
    [companies |-> {}, investments |-> {}, portfolio_companies |-> {},
     pe_firms |-> {}]

\* the database after one import into the empty tables
ImportedDatabases ==
    {NoRows} \cup
    UNION { {s.saved : s \in RunScript(script, NoRows, data)} :
            script \in {"import_accel", "import_eqt", "bain_save"},
            data \in ScrapedFiles }

\* one company_tags row for each company
TagsOf(d) ==
    { [id |-> c.id, company_id |-> c.id, tag_category |-> "sector",
       tag_value |-> "software"] : c \in d.companies }

\* ADMIN_API_KEY in the environment: unset, set, set to the empty string
ConfiguredKeys == {DefaultAdminKey, "s3cret", ""}

\* X-Admin-Key of a request: missing, empty, or a text
XAdminKeys == {None, "", "guess", DefaultAdminKey, "s3cret"}

InitAdmin ==
    /\ db \in ImportedDatabases
    /\ tags \in {{}, TagsOf(db)}
    /\ ADMIN_API_KEY \in ConfiguredKeys
    /\ request = NoRequest
    /\ response = NoResponse
    /\ runs = 0
    /\ updates = 0
    /\ track = [phase |-> "free"]
    /\ IdleNorm
    /\ IdleCat
    /\ IdleGeo
    /\ IdleEnr
    /\ IdleExt

PutRequest ==
    \E x_admin_key \in XAdminKeys, company_id \in 1..MaxCompanyId,
       company_update \in CompanyUpdates :
        PutCompany(x_admin_key, company_id, company_update)

DeleteRequest ==
    \E x_admin_key \in XAdminKeys, company_id \in 1..MaxCompanyId :
        DeleteCompany(x_admin_key, company_id)

NextAdmin ==
    \/ PutRequest
    \/ DeleteRequest

SpecAdmin == InitAdmin /\ [][NextAdmin]_vars

-----------------------------------------------------------------------------
(* src/scripts/cleanup_non_companies.py *)

\* lines 15-31
NON_COMPANY_PATTERNS ==
    { <<"A"," ","l","e","a","d","i","n","g"," ","i","n","f","r","a","s","t","r","u","c","t","u","r","e"," ","p","r","o","v","i","d","e","r">>,
      <<"f","i","r","m"," ","i","n"," ","c","h","i","n","a">>,
      <<"h","o","l","d","i","n","g"," ","c","o","m","p","a","n","y">>,
      <<"v","e","n","t","u","r","e"," ","c","a","p","i","t","a","l">>,
      <<"i","n","v","e","s","t","m","e","n","t"," ","g","r","o","u","p">>,
      <<"c","a","p","i","t","a","l"," ","p","a","r","t","n","e","r","s">>,
      <<"p","r","i","v","a","t","e"," ","e","q","u","i","t","y">>,
      <<"a","s","s","e","t"," ","m","a","n","a","g","e","m","e","n","t">>,
      <<"[","r","e","d","a","c","t","e","d","]">>,
      <<"[","c","o","n","f","i","d","e","n","t","i","a","l","]">>,
      <<"n","/","a">>,
      <<"t","b","d">>,
      <<"v","a","r","i","o","u","s">>,
      <<"p","o","r","t","f","o","l","i","o">>,
      <<"g","r","o","u","p"," ","i","n","v","e","s","t","m","e","n","t","s">> }

\* lines 45-52: Company.name.ilike('%pattern%') for one of the patterns
IsSuspicious(company) ==
    \E pattern \in NON_COMPANY_PATTERNS :
        Contains(lower(company.name), lower(pattern))

\* Mutant: the company rows are deleted and their investments and tags are
\* left behind.
cleanup_non_companies_CompaniesOnly(d, t, dry_run) ==
    LET suspicious_companies == {c \in d.companies : IsSuspicious(c)} IN
    IF suspicious_companies = {} \/ dry_run THEN [d |-> d, tags |-> t]
    ELSE [d |-> [d EXCEPT !.companies = @ \ suspicious_companies], tags |-> t]

\* lines 33-105: the tables after the run.  Lines 89-91 delete the
\* investments of each suspicious company, session.delete(company) at line
\* 94 cascades to its tags, and line 97 commits all of it at once.
cleanup_non_companies(d, t, dry_run) ==
    LET suspicious_companies == {c \in d.companies : IsSuspicious(c)}
        ids == {c.id : c \in suspicious_companies}
    IN
    IF suspicious_companies = {} \/ dry_run THEN [d |-> d, tags |-> t]
    ELSE [d |-> [d EXCEPT
                   !.companies = @ \ suspicious_companies,
                   !.investments = {i \in @ : i.company_id \notin ids}],
          tags |-> {g \in t : g.company_id \notin ids}]

-----------------------------------------------------------------------------
(* Specification SpecCleanup: imports, admin DELETE requests and cleanup runs *)

n_TBD == <<"T","B","D">>

\* scraped files one of which names something that is not a company
CleanupFiles ==
    { <<Rec(n_TBD, s_Current), Rec(n_Be, s_Exit)>>,
      <<Rec(n_Ac, s_Current), Rec(n_TBD, s_Exit)>> }

\* one importer that commits record by record, one that commits at its
\* end and one scraper
ImportScripts == {"import_accel", "bain_current", "apax_save"}

InitCleanup ==
    /\ db \in {NoRows} \cup
              UNION { {s.saved : s \in RunScript(script, NoRows, data)} :
                      script \in {"import_accel", "bain_save"},
                      data \in CleanupFiles }
    /\ tags \in {{}, TagsOf(db)}
    /\ ADMIN_API_KEY \in ConfiguredKeys
    /\ request = NoRequest
    /\ response = NoResponse
    /\ runs = 0
    /\ updates = 0
    /\ track = [phase |-> "free"]
    /\ IdleNorm
    /\ IdleCat
    /\ IdleGeo
    /\ IdleEnr
    /\ IdleExt

ImportFile ==
    \E script \in ImportScripts, data \in CleanupFiles : Invoke(script, data)

\* python cleanup_non_companies.py [--execute]
CleanupNonCompanies(dry_run) ==
    /\ track.phase = "free"
    /\ runs < MaxRuns
    /\ LET r == cleanup_non_companies(db, tags, dry_run) IN
          /\ db' = r.d
          /\ tags' = r.tags
    /\ runs' = runs + 1
    /\ request' = [method |-> "cleanup", dry_run |-> dry_run]
    /\ UNCHANGED <<ADMIN_API_KEY, response, updates, track, normvars, catvars,
                   geovars, enrvars, extvars>>

NextCleanup ==
    \/ ImportFile
    \/ DeleteRequest
    \/ \E dry_run \in BOOLEAN : CleanupNonCompanies(dry_run)

SpecCleanup == InitCleanup /\ [][NextCleanup]_vars

-----------------------------------------------------------------------------
(* src/api.py and src/backend/api_v2.py: GET /api/companies?employee_count= *)

\* the characters of the bracket texts and of the codes
Chars ==
    ( "c_00001_00010" :> <<"c","_","0","0","0","0","1","_","0","0","0","1","0">>
   @@ "1-10" :> <<"1","-","1","0">>
   @@ "c_00011_00050" :> <<"c","_","0","0","0","1","1","_","0","0","0","5","0">>
   @@ "11-50" :> <<"1","1","-","5","0">>
   @@ "c_00051_00100" :> <<"c","_","0","0","0","5","1","_","0","0","1","0","0">>
   @@ "51-100" :> <<"5","1","-","1","0","0">>
   @@ "c_00101_00250" :> <<"c","_","0","0","1","0","1","_","0","0","2","5","0">>
   @@ "101-250" :> <<"1","0","1","-","2","5","0">>
   @@ "c_00251_00500" :> <<"c","_","0","0","2","5","1","_","0","0","5","0","0">>
   @@ "251-500" :> <<"2","5","1","-","5","0","0">>
   @@ "c_00501_01000" :> <<"c","_","0","0","5","0","1","_","0","1","0","0","0">>
   @@ "501-1,000" :> <<"5","0","1","-","1",",","0","0","0">>
   @@ "c_01001_05000" :> <<"c","_","0","1","0","0","1","_","0","5","0","0","0">>
   @@ "1,001-5,000" :> <<"1",",","0","0","1","-","5",",","0","0","0">>
   @@ "c_05001_10000" :> <<"c","_","0","5","0","0","1","_","1","0","0","0","0">>
   @@ "5,001-10,000" :> <<"5",",","0","0","1","-","1","0",",","0","0","0">>
   @@ "c_10001_max" :> <<"c","_","1","0","0","0","1","_","m","a","x">>
   @@ "10,001+" :> <<"1","0",",","0","0","1","+">> )

\* src/crunchbase_helpers.py lines 38-40
decode_employee_count(code) ==
    IF code \in DOMAIN EMPLOYEE_RANGES THEN EMPLOYEE_RANGES[code]
    ELSE IF Truthy(code) THEN code ELSE "N/A"

\* api_v2.py lines 33-44: the keys in the order of the dict
EMPLOYEE_COUNT_KEYS ==
    << "1-10",
       "11-50",
       "51-100",
       "101-250",
       "251-500",
       "501-1,000",
       "1,001-5,000",
       "5,001-10,000",
       "10,001+" >>

EMPLOYEE_COUNT_CODES ==
    ( "1-10" :> "c_00001_00010"
   @@ "11-50" :> "c_00011_00050"
   @@ "51-100" :> "c_00051_00100"
   @@ "101-250" :> "c_00101_00250"
   @@ "251-500" :> "c_00251_00500"
   @@ "501-1,000" :> "c_00501_01000"
   @@ "1,001-5,000" :> "c_01001_05000"
   @@ "5,001-10,000" :> "c_05001_10000"
   @@ "10,001+" :> "c_10001_max" )

\* the employee_count column of the companies in the table: one company for
\* each code and one without a value
StoredEmployeeCounts == DOMAIN EMPLOYEE_RANGES \cup {None}

\* api.py lines 165-168
parse_filter(value) ==
    IF value = <<>> THEN <<>>
    ELSE SelectSeq(StrippedParts(value), LAMBDA v : v # <<>>)

\* api.py line 212: code_map.get(r) with code_map = {v: k}
code_map_get(r) ==
    IF \E k \in DOMAIN EMPLOYEE_RANGES : Chars[EMPLOYEE_RANGES[k]] = r
    THEN CHOOSE k \in DOMAIN EMPLOYEE_RANGES : Chars[EMPLOYEE_RANGES[k]] = r
    ELSE None

\* api.py lines 206-215: the employee_count values of the companies returned
v1_get_companies(employee_count) ==
    IF ~TruthyS(employee_count) THEN StoredEmployeeCounts
    ELSE
    LET employee_ranges == parse_filter(employee_count)
        codes == { code_map_get(employee_ranges[k]) : k \in 1..Len(employee_ranges) }
                     \ {None}
    IN  IF codes = {} THEN StoredEmployeeCounts
        ELSE {c \in StoredEmployeeCounts : c \in codes}

\* str.replace(old, '')
RECURSIVE remove(_, _)
remove(s, old) ==
    IF Len(s) < Len(old) THEN s
    ELSE IF SubSeq(s, 1, Len(old)) = old
    THEN remove(SubSeq(s, Len(old) + 1, Len(s)), old)
    ELSE <<s[1]>> \o remove(Tail(s), old)

\* api_v2.py lines 336-343: matched_values and remaining after the keys
\* 1..k have been looked for
RECURSIVE ExtractKeys(_, _)
ExtractKeys(employee_count, k) ==
    IF k = 0 THEN [matched_values |-> <<>>, remaining |-> employee_count]
    ELSE LET prev == ExtractKeys(employee_count, k - 1)
             key == Chars[EMPLOYEE_COUNT_KEYS[k]]
         IN  IF Contains(key, <<",">>) /\ Contains(prev.remaining, key)
             THEN [matched_values |-> Append(prev.matched_values, key),
                   remaining |-> remove(prev.remaining, key)]
             ELSE prev

\* Mutant: the value is split at every comma.
SmartSplit_PlainSplit(employee_count) ==
    SelectSeq(StrippedParts(employee_count), LAMBDA v : v # <<>>)

\* api_v2.py lines 336-350: matched_values
SmartSplit(employee_count) ==
    LET x == ExtractKeys(employee_count, Len(EMPLOYEE_COUNT_KEYS)) IN
    IF \E k \in 1..Len(x.remaining) : x.remaining[k] # ","
    THEN x.matched_values
             \o SelectSeq(StrippedParts(x.remaining), LAMBDA v : v # <<>>)
    ELSE x.matched_values

\* api_v2.py lines 353-363: a company with the stored value code satisfies
\* one of the conditions built for ec
EmployeeCondition(ec, code) ==
    /\ code # None
    /\ IF \E key \in DOMAIN EMPLOYEE_COUNT_CODES : Chars[key] = ec
       THEN \E key \in DOMAIN EMPLOYEE_COUNT_CODES :
                Chars[key] = ec /\ code = EMPLOYEE_COUNT_CODES[key]
       ELSE \/ Contains(lower(Chars[code]), lower(ec))
            \/ \E readable \in DOMAIN EMPLOYEE_COUNT_CODES :
                   /\ Contains(Chars[readable], ec)
                   /\ code = EMPLOYEE_COUNT_CODES[readable]

\* api_v2.py lines 333-366: the employee_count values of the companies returned
v2_get_companies(employee_count) ==
    IF ~TruthyS(employee_count) THEN StoredEmployeeCounts
    ELSE
    LET matched_values == SmartSplit(employee_count) IN
    IF matched_values = <<>> THEN StoredEmployeeCounts
    ELSE {c \in StoredEmployeeCounts :
             \E k \in 1..Len(matched_values) :
                 EmployeeCondition(matched_values[k], c)}

-----------------------------------------------------------------------------
(* Specification SpecFilter: one employee_count filter, both API versions *)

MaxFilterValues == 2

\* ",".join(values)
RECURSIVE JoinBrackets(_)
JoinBrackets(values) ==
    IF values = <<>> THEN <<>>
    ELSE IF Len(values) = 1 THEN Chars[values[1]]
    ELSE Chars[values[1]] \o <<",">> \o JoinBrackets(Tail(values))

BracketLists ==
    UNION { [1..n -> DOMAIN EMPLOYEE_COUNT_CODES] : n \in 1..MaxFilterValues }

InitFilter ==
    /\ requested \in BracketLists
    /\ ec_query = JoinBrackets(requested)
    /\ v1_ret = NoReturn
    /\ v2_ret = NoReturn
    /\ IdleBase
    /\ IdleBatch
    /\ IdleLate

GetCompaniesV1 ==
    /\ v1_ret = NoReturn
    /\ v1_ret' = Returned(v1_get_companies(ec_query))
    /\ UNCHANGED <<requested, ec_query, v2_ret, basevars, batchvars, latevars>>

GetCompaniesV2 ==
    /\ v2_ret = NoReturn
    /\ v2_ret' = Returned(v2_get_companies(ec_query))
    /\ UNCHANGED <<requested, ec_query, v1_ret, basevars, batchvars, latevars>>

NextFilter ==
    \/ GetCompaniesV1
    \/ GetCompaniesV2

SpecFilter == InitFilter /\ [][NextFilter]_vars

-----------------------------------------------------------------------------
(* src/find_linkedin_urls_serper.py: process_batch and its callers *)

MaxCompanies == 3

CompanyNamesV1 == <<"Acme", "Bolt", "Crux", "Dyna">>

\* the URL a lookup finds for a company name (lines 99-105 and 59-62)
LinkedInUrl ==
    ( "Acme" :> "https://www.linkedin.com/company/acme"
   @@ "Bolt" :> "https://www.linkedin.com/company/bolt"
   @@ "Crux" :> "https://www.linkedin.com/company/crux"
   @@ "Dyna" :> "https://www.linkedin.com/company/dyna" )

total == Len(companies)

\* line 161: the indices of batch = companies[i:i + batch_size]
Batch(i) == {j \in 1..total : i < j /\ j <= i + batch_size}

\* Mutant: the results come in the order the lookups completed.
GatherResults_CompletionOrder(i) ==
    LET done == SelectSeq(completion, LAMBDA j : j \in Batch(i)) IN
    [k \in 1..Len(done) |-> results_of[done[k]]]

\* line 171: asyncio.gather returns the results in the order of the tasks
GatherResults(i) ==
    [k \in 1..Cardinality(Batch(i)) |-> results_of[i + k]]

\* lines 174-177: for company, linkedin_url in zip(batch, results)
UpdateCompanies(i) ==
    LET results == GatherResults(i) IN
    [j \in 1..total |->
        IF j \in Batch(i) /\ Truthy(results[j - i])
        THEN [companies[j] EXCEPT !.linkedin_url = results[j - i]]
        ELSE companies[j]]

\* lines 211-214 and 250-254: the rows the caller's session loads
InitBatch ==
    /\ batch_size \in 1..MaxCompanies
    /\ \E n \in 1..MaxCompanies :
          /\ n <= Len(CompanyNamesV1)
          /\ stored \in [1..n -> {None, ""}]
          /\ companies = [j \in 1..n |->
                 [name |-> CompanyNamesV1[j], linkedin_url |-> stored[j]]]
          /\ lookup = [j \in 1..n |-> "none"]
          /\ results_of = [j \in 1..n |-> None]
    /\ b_pc = "loop"
    /\ b_i = 0
    /\ completion = <<>>
    /\ commits = 0
    /\ sleeps = 0
    /\ IdleBase
    /\ IdleFilter
    /\ IdleLate

\* lines 160-168: the next batch and a task for each of its companies
StartBatch ==
    /\ b_pc = "loop"
    /\ b_i < total
    /\ lookup' = [j \in 1..total |-> IF j \in Batch(b_i) THEN "pending" ELSE lookup[j]]
    /\ b_pc' = "gather"
    /\ UNCHANGED <<batch_size, companies, stored, b_i, results_of, completion,
                   commits, sleeps, basevars, fltvars, latevars>>

\* line 171: the event loop starts the tasks in the order they were made
StartLookup(j) ==
    /\ b_pc = "gather"
    /\ lookup[j] = "pending"
    /\ \A k \in Batch(b_i) : k < j => lookup[k] # "pending"
    /\ lookup' = [lookup EXCEPT ![j] = "running"]
    /\ UNCHANGED <<batch_size, companies, stored, b_pc, b_i, results_of,
                   completion, commits, sleeps, basevars, fltvars, latevars>>

\* lines 113-141: find_linkedin_url returns the URL found for the name, or None
CompleteLookup(j, linkedin_url) ==
    /\ b_pc = "gather"
    /\ lookup[j] = "running"
    /\ lookup' = [lookup EXCEPT ![j] = "done"]
    /\ results_of' = [results_of EXCEPT ![j] = linkedin_url]
    /\ completion' = Append(completion, j)
    /\ UNCHANGED <<batch_size, companies, stored, b_pc, b_i, commits, sleeps,
                   basevars, fltvars, latevars>>

\* lines 171-186: gather returns; the objects are updated; db_session, which
\* holds no object, commits; then the sleep or the next pass of the loop
UpdateAndCommit ==
    /\ b_pc = "gather"
    /\ \A j \in Batch(b_i) : lookup[j] = "done"
    /\ companies' = UpdateCompanies(b_i)
    /\ commits' = commits + 1
    /\ IF b_i + batch_size < total
       THEN b_pc' = "sleep" /\ b_i' = b_i
       ELSE b_pc' = "loop" /\ b_i' = b_i + batch_size
    /\ UNCHANGED <<batch_size, stored, lookup, results_of, completion, sleeps,
                   basevars, fltvars, latevars>>

\* line 186: asyncio.sleep(2) is over
Sleep ==
    /\ b_pc = "sleep"
    /\ sleeps' = sleeps + 1
    /\ b_i' = b_i + batch_size
    /\ b_pc' = "loop"
    /\ UNCHANGED <<batch_size, companies, stored, lookup, results_of, completion,
                   commits, basevars, fltvars, latevars>>

\* lines 188-197 and 228-229: the loop is over; db_session.close(), then the
\* caller's finally: session.close() without a commit
Return ==
    /\ b_pc = "loop"
    /\ b_i >= total
    /\ b_pc' = "returned"
    /\ UNCHANGED <<batch_size, companies, stored, b_i, lookup, results_of,
                   completion, commits, sleeps, basevars, fltvars, latevars>>

NextBatch ==
    \/ StartBatch
    \/ \E j \in 1..total : StartLookup(j)
    \/ \E j \in 1..total :
          \E linkedin_url \in {None, LinkedInUrl[companies[j].name]} :
              CompleteLookup(j, linkedin_url)
    \/ UpdateAndCommit
    \/ Sleep
    \/ Return

SpecBatch == InitBatch /\ [][NextBatch]_vars

-----------------------------------------------------------------------------
(* src/add_revenue_data.py and src/enrich_with_swarm.py: the loop over the
   companies.  Times are in milliseconds. *)

MaxLoopCompanies == 11

\* what can happen to a company in each loop
LoopPaths(script) ==
    IF script = "add_revenue_data"
    THEN {"found", "found without data", "no details", "not found"}
    ELSE {"found", "found without data", "not found", "no name"}

\* add_revenue_data.py, lines 54-57: if i % 10 == 0: session.commit()
CommitsAt(i, path) == IF path # "not found" /\ i % 10 = 0 THEN 1 ELSE 0

\* add_revenue_data.py, lines 28-31 and 59-60: `continue` when the search
\* found nothing, time.sleep(0.3) at the end of the body
add_revenue_sleep(i, path) == IF path = "not found" THEN 0 ELSE 300

\* enrich_with_swarm.py, lines 35-37 and 80-85: `continue` for a company
\* without a name, else time.sleep(2) after every 10th company and
\* time.sleep(0.5) after the others
swarm_sleep(idx, path) ==
    IF path = "no name" THEN 0
    ELSE IF idx % 10 = 0 THEN 2000 ELSE 500

InitLoop ==
    /\ loop_script \in {"add_revenue_data", "enrich_with_swarm"}
    /\ loop_total \in 1..MaxLoopCompanies
    /\ loop_idx = 0
    /\ loop_last = NoCompanyYet
    /\ loop_commits = 0
    /\ IdleBase
    /\ IdleFilter
    /\ IdleBatch
    /\ IdleRow

\* one pass of `for i, company in enumerate(companies, 1)` in
\* add_revenue_employee_data
AddRevenueIteration(path) ==
    /\ loop_script = "add_revenue_data"
    /\ loop_idx < loop_total
    /\ loop_idx' = loop_idx + 1
    /\ loop_commits' = loop_commits + CommitsAt(loop_idx', path)
    /\ loop_last' = [path |-> path, slept |-> add_revenue_sleep(loop_idx', path)]
    /\ UNCHANGED <<loop_script, loop_total, basevars, fltvars, batchvars, rowvars>>

\* one pass of `for idx, company in enumerate(companies, 1)` in
\* enrich_with_swarm.main
SwarmIteration(path) ==
    /\ loop_script = "enrich_with_swarm"
    /\ loop_idx < loop_total
    /\ loop_idx' = loop_idx + 1
    /\ loop_last' = [path |-> path, slept |-> swarm_sleep(loop_idx', path)]
    /\ UNCHANGED <<loop_script, loop_total, loop_commits,
                   basevars, fltvars, batchvars, rowvars>>

NextLoop ==
    \/ \E path \in LoopPaths("add_revenue_data") : AddRevenueIteration(path)
    \/ \E path \in LoopPaths("enrich_with_swarm") : SwarmIteration(path)

SpecLoop == InitLoop /\ [][NextLoop]_vars

-----------------------------------------------------------------------------
(* src/src/models/database_models_v2.py: a stored investment row that is
   normalized whenever a script or the API touches it *)

MaxRowCalls == 4

InitRow ==
    /\ row_company = [loaded |-> TRUE, is_public |-> FALSE]
    /\ row_self \in [raw_status : RawStatuses, exit_type : ExitTypes,
                     computed_status : {None}]
    /\ row_created = row_self
    /\ row_op = "created"
    /\ row_calls = 0
    /\ IdleBase
    /\ IdleFilter
    /\ IdleBatch
    /\ IdleLoop

\* company.is_public = value
SetIsPublic(value) ==
    /\ row_calls < MaxRowCalls
    /\ row_company.is_public # value
    /\ row_company' = [row_company EXCEPT !.is_public = value]
    /\ row_op' = "is_public set"
    /\ row_calls' = row_calls + 1
    /\ UNCHANGED <<row_self, row_created, basevars, fltvars, batchvars, loopvars>>

\* investment.normalize_status()
NormalizeRow ==
    /\ row_calls < MaxRowCalls
    /\ row_self' = normalize_status(row_self, row_company)
    /\ row_op' = "normalized"
    /\ row_calls' = row_calls + 1
    /\ UNCHANGED <<row_company, row_created, basevars, fltvars, batchvars, loopvars>>

NextRow ==
    \/ \E value \in BOOLEAN : SetIsPublic(value)
    \/ NormalizeRow

SpecRow == InitRow /\ [][NextRow]_vars

-----------------------------------------------------------------------------
(* Claims about normalize_status *)

NonPublic(company) == company = NoCompany \/ ~company.is_public

\* a and b are the same letter, whatever their case
SameLetter(a, b) ==
    \/ a = b
    \/ \E i \in 1..Len(UpperCase) : {a, b} = {UpperCase[i], LowerCase[i]}

\* word occurs in s as a case-insensitive substring
OccursIgnoringCase(s, word) ==
    \E i \in 0..(Len(s) - Len(word)) :
        \A j \in 1..Len(word) : SameLetter(s[i + j], word[j])

HasStatusWord(raw) ==
    /\ raw # NoneS
    /\ \E word \in StatusWords : OccursIgnoringCase(raw, word)

\* C6: after normalize_status on an investment whose company has is_public
\* true, computed_status is "Exit", for every raw_status and exit_type.
C6_IpoGivesExit ==
    (n_pc = "done" /\ n_company # NoCompany /\ n_company.is_public)
        => n_inv.computed_status = "Exit"

C6_Witness ==
    /\ n_pc = "done"
    /\ n_company # NoCompany /\ n_company.is_public
    /\ n_inv.raw_status = s_Active
    /\ n_inv.computed_status = "Exit"

\* C7 (as claimed): for a non-public company, a non-null exit_type always
\* gives computed_status "Exit".
C7_NonNullExitTypeGivesExit ==
    (n_pc = "done" /\ NonPublic(n_company) /\ n_inv.exit_type # None)
        => n_inv.computed_status = "Exit"

\* C7 (amended): for a non-public company, an exit_type that is neither null,
\* nor empty, nor the text "None" always gives computed_status "Exit", even
\* when raw_status holds "active", "current" or "portfolio".
C7_SetExitTypeGivesExit ==
    (n_pc = "done" /\ NonPublic(n_company)
        /\ n_inv.exit_type \notin {None, "", "None"})
        => n_inv.computed_status = "Exit"

C7_Witness ==
    /\ n_pc = "done"
    /\ NonPublic(n_company)
    /\ n_inv.exit_type = "Acquisition"
    /\ n_inv.raw_status = s_PortfolioCompany
    /\ n_inv.computed_status = "Exit"

\* C8: for a non-public company with exit_type unset, computed_status is
\* "Active" exactly when raw_status holds "active", "current" or "portfolio"
\* as a case-insensitive substring, and "Exit" for every other raw_status
\* (null, empty and garbled text included).
C8_ActiveIffStatusWord ==
    (n_pc = "done" /\ NonPublic(n_company) /\ n_inv.exit_type = None)
        => /\ n_inv.computed_status \in {"Active", "Exit"}
           /\ n_inv.computed_status = "Active" <=> HasStatusWord(n_inv.raw_status)

C8_Witness ==
    /\ n_pc = "done"
    /\ NonPublic(n_company)
    /\ n_inv.exit_type = None
    /\ n_inv.raw_status = s_FormerPORTFOLIO
    /\ n_inv.computed_status = "Active"

-----------------------------------------------------------------------------
(* Claims about the classifiers *)

SizeCategories == {"Startup", "Small", "Medium", "Large", "Enterprise"}
RevenueTiers == {"Pre-Revenue", "Early Stage", "Growth Stage", "Scale-up", "Unicorn"}

\* C9: categorize_company_size returns one of the five size categories for
\* every code of EMPLOYEE_RANGES and None for every other input.
C9_SizeCategory ==
    size_ret # NotCalled =>
        IF employee_code \in DOMAIN EMPLOYEE_RANGES
        THEN size_ret \in SizeCategories
        ELSE size_ret = None

C9_Witness ==
    /\ employee_code = "c_10001_max"
    /\ size_ret = "Enterprise"

\* C10: categorize_revenue_tier returns one of the five revenue tiers for
\* every code of REVENUE_RANGES and None for every other input.
C10_RevenueTier ==
    tier_ret # NotCalled =>
        IF revenue_code \in DOMAIN REVENUE_RANGES
        THEN tier_ret \in RevenueTiers
        ELSE tier_ret = None

C10_Witness ==
    /\ revenue_code = "r_00050000"
    /\ tier_ret = "Growth Stage"

\* str(n) for an int
RECURSIVE NatStr(_)
NatStr(n) ==
    IF n < 10 THEN <<DigitChars[n + 1]>>
    ELSE NatStr(n \div 10) \o <<DigitChars[(n % 10) + 1]>>
str(n) == IF n < 0 THEN <<"-">> \o NatStr(0 - n) ELSE NatStr(n)

StageOf(year) ==
    IF year >= 2020 THEN "Recent" ELSE IF year >= 2015 THEN "Mature" ELSE "Legacy"

\* an input in which no digit occurs
NonNumeric(x) ==
    \/ x = PyNone
    \/ x.type = "str" /\ \A k \in 1..Len(x.str) : ~IsDigit(x.str[k])

\* C11: categorize_investment_stage(year), for a year given as an int or as
\* its decimal string, returns "Recent" from 2020 on, "Mature" from 2015 to
\* 2019 and "Legacy" before 2015; for a non-numeric input it returns None
\* and does not raise.
C11_InvestmentStage ==
    stage_ret # NotCalled =>
        /\ \A n \in YearValues :
              year_input \in {PyInt(n), PyStr(str(n))}
                  => stage_ret = StageOf(n)
        /\ NonNumeric(year_input) => stage_ret = None

-----------------------------------------------------------------------------
(* Claims about parse_location *)

Called == geo_pc = "done"
IsText == hq_input # PyNone /\ strip(hq_input.str) # <<>>
Parts == StrippedParts(hq_input.str)

RegionCountry(R) ==
    IF R \in US_STATES THEN t_UnitedStates
    ELSE IF R \in CANADIAN_PROVINCES THEN t_Canada
    ELSE t_UnitedKingdom

\* C12: for a two-part text "C, R" with the parts trimmed, parse_location
\* returns (C, R, "United States") when R is a US state, (C, R, "Canada")
\* when R is a Canadian province, (C, R, "United Kingdom") when R is a UK
\* name, and (C, None, R) otherwise.
C12_TwoParts ==
    (Called /\ IsText /\ Len(Parts) = 2) =>
        LET C == Parts[1]
            R == Parts[2]
        IN  location_ret =
                IF R \in US_STATES \cup CANADIAN_PROVINCES \cup UK_NAMES
                THEN <<C, R, RegionCountry(R)>>
                ELSE <<C, NoneS, R>>

C12_Witness ==
    /\ Called
    /\ hq_input = PyStr(<<"S","a","n"," ","F","r","a","n","c","i","s","c","o",","," ","C","a","l","i","f","o","r","n","i","a">>)
    /\ location_ret = <<<<"S","a","n"," ","F","r","a","n","c","i","s","c","o">>, <<"C","a","l","i","f","o","r","n","i","a">>, t_UnitedStates>>

\* C13 as stated: for a text of three or more parts the city is the first
\* part and the country is decided by the second part R exactly as in the
\* two-part case whenever R is a US state, a Canadian province or a UK name.
C13_SecondPartDecides ==
    (Called /\ IsText /\ Len(Parts) >= 3
        /\ Parts[2] \in US_STATES \cup CANADIAN_PROVINCES \cup UK_NAMES) =>
        /\ location_ret[1] = Parts[1]
        /\ location_ret[3] = RegionCountry(Parts[2])

\* C13 amended: for a text of three or more parts the city is the first
\* part, the state/region is the second part R, and the country is "United
\* States" when R is a US state, "Canada" when R is a Canadian province,
\* otherwise "United Kingdom" when the last part is a UK name, and otherwise
\* the last part.
C13_SecondPartThenLastPart ==
    (Called /\ IsText /\ Len(Parts) >= 3) =>
        LET R == Parts[2]
            X == Parts[Len(Parts)]
        IN  /\ location_ret[1] = Parts[1]
            /\ location_ret[2] = R
            /\ location_ret[3] =
                  IF R \in US_STATES \cup CANADIAN_PROVINCES THEN RegionCountry(R)
                  ELSE IF X \in UK_NAMES THEN t_UnitedKingdom
                  ELSE X

C13_Witness ==
    /\ Called
    /\ hq_input = PyStr(<<"S","a","n"," ","F","r","a","n","c","i","s","c","o",","," ","E","n","g","l","a","n","d",","," ","E","u","r","o","p","e">>)
    /\ location_ret = <<<<"S","a","n"," ","F","r","a","n","c","i","s","c","o">>, <<"E","n","g","l","a","n","d">>, <<"E","u","r","o","p","e">>>>

\* C14 as stated: parse_location returns (None, None, None) for None, empty
\* and whitespace-only input, (that string, None, None) for a text without
\* commas, and otherwise a triple whose unknown components are None.
C14_UnknownComponentsNone ==
    Called =>
        /\ ~IsText => location_ret = <<NoneS, NoneS, NoneS>>
        /\ (IsText /\ Len(Parts) = 1) => location_ret = <<hq_input.str, NoneS, NoneS>>
        /\ \A k \in 1..3 : location_ret[k] # <<>>

CountryNames == {t_UnitedStates, t_Canada, t_UnitedKingdom}

\* C14 amended: for None and for every text parse_location returns a triple:
\* (None, None, None) for None, empty and whitespace-only input, (the
\* trimmed text, None, None) for a text without commas, and otherwise the
\* trimmed first part as city and, for state/region and country, None, a
\* trimmed part of the text (which may be empty) or one of the three country
\* names.
C14_TotalWithTrimmedParts ==
    Called =>
        /\ Len(location_ret) = 3
        /\ ~IsText => location_ret = <<NoneS, NoneS, NoneS>>
        /\ (IsText /\ Len(Parts) = 1) =>
              location_ret = <<strip(hq_input.str), NoneS, NoneS>>
        /\ (IsText /\ Len(Parts) >= 2) =>
              /\ location_ret[1] = Parts[1]
              /\ \A k \in 2..3 :
                    location_ret[k] \in
                        {NoneS} \cup CountryNames \cup {Parts[j] : j \in 2..Len(Parts)}

C14_Witness ==
    /\ Called
    /\ hq_input = PyStr(<<"S","a","n"," ","F","r","a","n","c","i","s","c","o",",">>)
    /\ location_ret = <<<<"S","a","n"," ","F","r","a","n","c","i","s","c","o">>, NoneS, <<>> >>

-----------------------------------------------------------------------------
(* Claims about the database *)

Importers ==
    {"import_accel", "import_eqt", "import_bessemer", "import_advent", "import_json"}

\* C1: running the same importer a second time on the same scraped file
\* leaves the same Company rows and the same CompanyPEInvestment rows as the
\* first run left.
C1_RerunCreatesNoRows ==
    (track.phase = "twice" /\ track.script \in Importers)
        => Rows(db) = track.rows

\* C2: at most one CompanyPEInvestment row for each (company_id, pe_firm_id).
C2_OneInvestmentPerPair ==
    \A i, j \in db.investments :
        (i.company_id = j.company_id /\ i.pe_firm_id = j.pe_firm_id) => i = j

C2_Witness ==
    /\ \E i, j \in db.investments :
          i.company_id = j.company_id /\ i.pe_firm_id # j.pe_firm_id
    /\ track.phase = "twice"

\* C3: no two Company rows have the same name.
C3_UniqueCompanyName ==
    \A c1, c2 \in db.companies : c1.name = c2.name => c1 = c2

\* C4: every CompanyPEInvestment row has computed_status "Active" or "Exit".
C4_ComputedStatusNormalized ==
    \A i \in db.investments : i.computed_status \in {"Active", "Exit"}

\* C5: every CompanyPEInvestment row of a company whose is_public is set has
\* computed_status "Exit".
C5_PublicCompanyIsExit ==
    \A i \in db.investments : \A c \in db.companies :
        (c.id = i.company_id /\ c.is_public) => i.computed_status = "Exit"

\* a run of one of the import scripts
ImporterRun == ImportAccel \/ ImportEqt \/ ImportBessemer \/ ImportAdvent

\* C15: a run of an importer leaves every non-empty website and description
\* of a Company that existed before the run as it was.
C15_ImportFillsOnlyEmpty ==
    [][ImporterRun =>
        \A c \in db.companies : \A c2 \in db'.companies :
            c2.id = c.id =>
                /\ Truthy(c.website) => c2.website = c.website
                /\ Truthy(c.description) => c2.description = c.description]_vars

\* C16: a script run never changes the computed_status of a
\* CompanyPEInvestment row that existed before the run, even when the run
\* stores a different raw_status in it.
C16_StatusKeptOnRerun ==
    [][runs' = runs + 1 =>
        \A i \in db.investments : \A j \in db'.investments :
            j.id = i.id =>
                /\ j.company_id = i.company_id
                /\ j.pe_firm_id = i.pe_firm_id
                /\ j.computed_status = i.computed_status]_vars

\* a Bessemer row created as 'Current' whose raw_status a later run replaced
C16_Witness ==
    \E i \in db.investments :
        /\ i.pe_firm_id = BESSEMER
        /\ i.raw_status = s_Exit
        /\ i.computed_status = "Active"

\* the records of a file that import_accel_portfolio can write: those with a
\* name
PersistedByAccel(data) ==
    \A k \in 1..Len(data) :
        data[k].name # NoneS =>
            \E c \in db'.companies :
                c.name = data[k].name /\ HasInvestment(db', c.id, "Accel")

\* the General Atlantic rows that smart_migrate can write: those whose status
\* fits raw_status and whose name is new
PersistedBySmartMigrate ==
    \A r \in db.portfolio_companies :
        (/\ r.pe_firm_id = GA
         /\ Len(r.status) <= RAW_STATUS_LENGTH
         /\ \A c \in db.companies : lower(c.name) # lower(r.name)) =>
            \E c \in db'.companies : c.name = r.name /\ HasInvestment(db', c.id, GA)

\* the records of a file that import_advent_portfolio processes without an
\* exception: those of a company that has its Advent investment
PersistedByAdvent(data) ==
    \A k \in 1..Len(data) : \A c \in db.companies :
        (/\ c.name = data[k].name
         /\ \A c3 \in db.companies : c3.name = c.name => c3 = c
         /\ HasInvestment(db, c.id, ADVENT)
         /\ Truthy(data[k].website)) =>
            \E c2 \in db'.companies : c2.id = c.id /\ c2.website = data[k].website

\* C19: when writing one record fails during a run, the run goes on and
\* every record that was processed without error is persisted: the failure
\* of a record discards that record's changes only.
C19_FailureDiscardsOnlyItsRecord ==
    [][/\ \A data \in ScrapedFiles :
              Invoke("import_accel", data) => PersistedByAccel(data)
       /\ (Invoke("smart_migrate", <<>>) /\ GA \in db.pe_firms)
              => PersistedBySmartMigrate
       /\ \A data \in ScrapedFiles :
              (Invoke("import_advent", data) /\ ADVENT \in db.pe_firms)
                  => PersistedByAdvent(data)]_vars

-----------------------------------------------------------------------------
(* Claims about the enrichment passes *)

Enriched == e_pc \in {"enrich_companies", "add_revenue_employee_data"}

TextFields ==
    {"revenue_range", "employee_count", "linkedin_url", "description",
     "industry_category"}

PlaceFields == {"city", "state_region", "country"}

Populated(company, f) ==
    IF f \in PlaceFields THEN TruthyS(company[f]) ELSE Truthy(company[f])

\* C17: an enrichment pass leaves alone every field of the company that was
\* populated before the pass: revenue bracket, employee bracket, LinkedIn
\* URL, description, industry category, city, state/region and country.
C17_EnrichFillsOnlyEmpty ==
    Enriched =>
        \A f \in TextFields \cup PlaceFields :
            Populated(e_before, f) => e_company[f] = e_before[f]

\* the part of C17 the pipeline keeps: the five text fields
C17_PipelineKeepsTextFields ==
    e_pc = "enrich_companies" =>
        \A f \in TextFields :
            Populated(e_before, f) => e_company[f] = e_before[f]

\* a request that raised or was answered with a status other than 200
Failed(resp) ==
    IF resp.kind = "exception" THEN TRUE
    ELSE IF resp.kind = "response" THEN resp.status_code # 200
    ELSE FALSE

\* the answer of a search that finds nothing
NotFound == HttpResponse(200, [entities |-> <<>>])

\* the company the pass that ran makes of e_before under the answers resp
PassResult(resp) ==
    IF e_pc = "enrich_companies"
    THEN enrich_companies_body(e_before, resp)
    ELSE add_revenue_employee_data_body(e_before, resp)

\* the details request was sent
DetailsRequested == e_calls.details = 1

-----------------------------------------------------------------------------
(* Claims about the admin endpoints *)

\* C20: PUT and DELETE /api/companies/{id} change the tables only when the
\* X-Admin-Key header equals the configured ADMIN_API_KEY: a request whose
\* key is missing, empty or different is answered 403 and creates, modifies
\* and deletes no company, investment or tag row, whether or not the id
\* exists.
C20_AdminKeyRequired ==
    [][updates' = updates + 1 =>
        LET x_admin_key == request'.x_admin_key IN
        /\ (x_admin_key = None \/ x_admin_key = "" \/ x_admin_key # ADMIN_API_KEY)
               => /\ response'.status_code = 403
                  /\ db' = db
                  /\ tags' = tags
        /\ (db' # db \/ tags' # tags) => x_admin_key = ADMIN_API_KEY]_vars

\* a DELETE with a wrong key for a company that has an investment and a tag
C20_Witness ==
    /\ request.method = "DELETE"
    /\ Truthy(request.x_admin_key)
    /\ request.x_admin_key # ADMIN_API_KEY
    /\ response.status_code = 403
    /\ \E c \in db.companies : c.id = request.company_id
    /\ \E i \in db.investments : i.company_id = request.company_id
    /\ \E g \in tags : g.company_id = request.company_id

-----------------------------------------------------------------------------
(* Claims about the employee_count filter *)

\* the companies whose stored bracket decodes to a requested text
Expected ==
    {c \in StoredEmployeeCounts :
        \E k \in 1..Len(requested) : decode_employee_count(c) = requested[k]}

\* C21: with an employee_count filter made of displayed bracket texts, GET
\* /api/companies returns exactly the companies whose stored bracket decodes
\* to a requested text, in both API versions.
C21_EmployeeFilterExact ==
    /\ v1_ret.called => v1_ret.rows = Expected
    /\ v2_ret.called => v2_ret.rows = Expected

\* the part of C21 that api_v2.py keeps
C21_V2FilterExact == v2_ret.called => v2_ret.rows = Expected

-----------------------------------------------------------------------------
(* Claims about process_batch *)

\* the number of the batch company j belongs to, counted from 0
BatchOf(j) == (j - 1) \div batch_size

\* the lookups that have started and not completed
InFlight == {j \in 1..total : lookup[j] \in {"pending", "running"}}

\* the objects of the batch of company j have been updated
Updated(j) == commits > BatchOf(j)

\* the batches run one after the other, with a commit call and a sleep
\* between them
BatchesInTurn ==
    /\ Cardinality(InFlight) <= batch_size
    /\ \A j \in 1..total : lookup[j] # "none" =>
          /\ \A k \in 1..total : BatchOf(k) < BatchOf(j) => lookup[k] = "done"
          /\ commits >= BatchOf(j) /\ sleeps >= BatchOf(j)
          /\ j \in InFlight => commits = BatchOf(j) /\ sleeps = BatchOf(j)
    /\ b_pc = "returned" => sleeps = BatchOf(total)

\* C22: the companies run in consecutive batches of batch_size: never more
\* than batch_size lookups in flight; no lookup of the next batch starts
\* before every lookup of the batch has completed and its updates are
\* committed; a 2-second sleep separates consecutive batches and none
\* follows the last.
C22_ConsecutiveBatches ==
    /\ BatchesInTurn
    /\ \A j \in 1..total : lookup[j] # "none" =>
          \A k \in 1..total :
              (BatchOf(k) < BatchOf(j) /\ Truthy(results_of[k]))
                  => stored[k] = results_of[k]

\* the part of C22 that holds: batching, the commit call and the sleep
C22_BatchingAndSleep == BatchesInTurn

\* C23: when the run has returned, every company whose lookup returned a
\* URL has that URL stored in the table.
C23_FoundUrlsStored ==
    b_pc = "returned" =>
        \A j \in 1..total : Truthy(results_of[j]) => stored[j] = results_of[j]

\* C28: each company receives the result of its own lookup, whatever the
\* order of completion: the URL found for its name, or its previous
\* linkedin_url when the lookup returned None.
C28_OwnResult ==
    \A j \in 1..total :
        IF Updated(j) /\ Truthy(results_of[j])
        THEN /\ companies[j].linkedin_url = results_of[j]
             /\ companies[j].linkedin_url = LinkedInUrl[companies[j].name]
        ELSE companies[j].linkedin_url = stored[j]

\* a batch whose second lookup completed first and found a URL, while the
\* first found none
C28_Witness ==
    \E j, k \in 1..total :
        /\ j < k
        /\ BatchOf(j) = BatchOf(k)
        /\ Updated(j)
        /\ \E m, n \in 1..Len(completion) :
               m < n /\ completion[m] = k /\ completion[n] = j
        /\ results_of[j] = None
        /\ Truthy(results_of[k])

-----------------------------------------------------------------------------
(* Claims about smart_migrate *)

\* the General Atlantic rows of portfolio_companies
GaRows(d) == {r \in d.portfolio_companies : r.pe_firm_id = GA}

\* smart_migrate runs to its end and counts no error: the firm exists and
\* no status is too long for raw_status
MigratesWithoutError ==
    /\ Invoke("smart_migrate", <<>>)
    /\ GA \in db.pe_firms
    /\ \A r \in GaRows(db) : Len(r.status) <= RAW_STATUS_LENGTH

\* row r has a company of its name, up to letter case, that General
\* Atlantic is linked to
Linked(d, r) ==
    \E c \in d.companies :
        lower(c.name) = lower(r.name) /\ HasInvestment(d, c.id, GA)

\* C24: after smart_migrate completes without errors, every General
\* Atlantic row of portfolio_companies has an investment row linking
\* General Atlantic to a Company, also when the row's name differs only in
\* letter case from the name of a Company that already exists.
C24_AllInvestmentsCreated ==
    [][MigratesWithoutError => \A r \in GaRows(db) : Linked(db', r)]_vars

\* the part of C24 that holds: the rows whose name is new or is exactly
\* the name of an existing Company
C24_ExactNamesLinked ==
    [][MigratesWithoutError =>
        \A r \in GaRows(db) :
            (\A c \in db.companies :
                 lower(c.name) = lower(r.name) => c.name = r.name)
                => Linked(db', r)]_vars

-----------------------------------------------------------------------------
(* Claims about the rows an import leaves *)

\* the firm each import script imports for
FirmOf(script) ==
    CASE script = "import_accel"    -> "Accel"
      [] script = "import_eqt"      -> "EQT"
      [] script = "import_bessemer" -> BESSEMER
      [] script = "import_advent"   -> ADVENT
      [] script = "import_a16z"     -> A16Z

\* the script runs on the file with its firm in pe_firms, and then every
\* record with a name whose company had no investment row for the firm has
\* a Company row of its name with an investment row of the firm
LeavesCompanyAndInvestment(script, data) ==
    (Invoke(script, data) /\ FirmOf(script) \in db.pe_firms) =>
        \A k \in 1..Len(data) :
            (/\ TruthyS(data[k].name)
             /\ \A c \in db.companies :
                   c.name = data[k].name => ~HasInvestment(db, c.id, FirmOf(script)))
                => \E c \in db'.companies :
                      /\ c.name = data[k].name
                      /\ HasInvestment(db', c.id, FirmOf(script))

\* C25: each import script, after processing a record whose company has no
\* investment row for its firm, leaves a Company row of that name and an
\* investment row for (company, firm); import_a16z_portfolio and
\* import_advent_portfolio included, their constructor calls being checked
\* against the columns of database_models_v2.
C25_ImportLeavesCompanyAndInvestment ==
    [][\A data \in ScrapedFiles :
          \A script \in {"import_accel", "import_eqt", "import_bessemer",
                         "import_advent", "import_a16z"} :
              LeavesCompanyAndInvestment(script, data)]_vars

\* the part of C25 that holds: the three scripts whose constructor calls
\* name columns of the model classes only
C25_AccelEqtBessemer ==
    [][\A data \in ScrapedFiles :
          \A script \in {"import_accel", "import_eqt", "import_bessemer"} :
              LeavesCompanyAndInvestment(script, data)]_vars

\* import_a16z_portfolio alone
C25_A16z ==
    [][\A data \in ScrapedFiles : LeavesCompanyAndInvestment("import_a16z", data)]_vars

\* import_advent_portfolio alone
C25_Advent ==
    [][\A data \in ScrapedFiles : LeavesCompanyAndInvestment("import_advent", data)]_vars

-----------------------------------------------------------------------------
(* Claims about the loops of the enrichment scripts *)

\* the three paths the rate limit is claimed for
RatedPaths == {"found", "found without data", "not found"}

\* C26: in the enrichment scripts a sleep separates the processing of every
\* two consecutive companies, on every path: found, found without data and
\* not found.
C26_SleepBetweenCompanies ==
    (loop_idx < loop_total /\ loop_last.path \in RatedPaths)
        => loop_last.slept > 0

\* the part of C26 that holds: enrich_with_swarm sleeps on the three paths,
\* add_revenue_data on every path but "not found"
C26_SleepWhereTheBodyEnds ==
    (/\ loop_idx < loop_total
     /\ loop_last.path \in RatedPaths \cup {"no details"}
     /\ ~(loop_script = "add_revenue_data" /\ loop_last.path = "not found"))
        => loop_last.slept \in {300, 500, 2000}

-----------------------------------------------------------------------------
(* Claims about repeated normalization *)

\* C27: computed_status depends only on the current is_public, exit_type
\* and raw_status, and normalize_status changes no stored field but
\* computed_status: a row normalized after is_public was set and cleared
\* again has the computed_status of a fresh row with the same raw_status
\* and the original exit_type.
C27_NormalizeKeepsOtherFields ==
    row_op = "normalized" =>
        /\ row_self.raw_status = row_created.raw_status
        /\ row_self.exit_type = row_created.exit_type
        /\ row_self.computed_status =
               normalize_status(row_created, row_company).computed_status

\* the part of C27 that holds: raw_status is never written, exit_type only
\* changes from empty to "IPO", and computed_status is a function of the
\* current is_public and the row's current exit_type and raw_status
C27_CurrentFieldsDecide ==
    row_op = "normalized" =>
        /\ row_self.raw_status = row_created.raw_status
        /\ row_self.exit_type \in {row_created.exit_type, "IPO"}
        /\ row_self.exit_type # row_created.exit_type
               => ~Truthy(row_created.exit_type)
        /\ row_self.computed_status =
               normalize_status(row_self, row_company).computed_status

-----------------------------------------------------------------------------
(* Claims about the statistics endpoints *)

\* C29: in every database state the importers and scrapers reach,
\* GET /api/stats reports active_investments + exited_investments =
\* total_investments, and GET /api/pe-firms reports for every firm
\* active_count + exit_count = total_investments.
C29_CountsPartition ==
    /\ get_stats(db).active_investments + get_stats(db).exited_investments
           = get_stats(db).total_investments
    /\ \A firm \in get_pe_firms(db) :
           firm.active_count + firm.exit_count = firm.total_investments

\* the part of C29 that holds: the two counts never exceed the total, and
\* they add up to it for the firms all of whose rows were normalized to
\* "Active" or "Exit"
C29_CountsWithinTotal ==
    /\ get_stats(db).active_investments + get_stats(db).exited_investments
           <= get_stats(db).total_investments
    /\ \A firm \in get_pe_firms(db) :
           /\ firm.active_count + firm.exit_count <= firm.total_investments
           /\ (\A i \in db.investments :
                   i.pe_firm_id = firm.name => i.computed_status \in {"Active", "Exit"})
                  => firm.active_count + firm.exit_count = firm.total_investments

-----------------------------------------------------------------------------
(* Claims about deleted companies *)

\* every investment row and every tag row references an existing company
NoDanglingRows ==
    /\ \A i \in db.investments : \E c \in db.companies : c.id = i.company_id
    /\ \A g \in tags : \E c \in db.companies : c.id = g.company_id

\* the step removes the company rows it removes together with every
\* investment and tag of theirs
RemovesRowsOfRemoved ==
    \A c \in db.companies :
        (\A c2 \in db'.companies : c2.id # c.id) =>
            /\ \A i \in db'.investments : i.company_id # c.id
            /\ \A g \in tags' : g.company_id # c.id

\* C30: after any sequence of imports, admin DELETE requests and
\* cleanup_non_companies runs every CompanyPEInvestment row and every
\* CompanyTag row references an existing Company; deleting a company
\* removes all its investments and tags in the same commit.
C30_NoOrphans == []NoDanglingRows /\ [][RemovesRowsOfRemoved]_vars

\* company 1 had investment 1 and tag 1 and was deleted with them by an
\* admin request, the rows of company 2 staying
C30_Witness ==
    /\ request = [method |-> "DELETE", x_admin_key |-> ADMIN_API_KEY, company_id |-> 1]
    /\ response = [status_code |-> 200]
    /\ \E c \in db.companies : c.id = 2
    /\ \E i \in db.investments : i.id = 2
    /\ \E g \in tags : g.id = 2
    /\ \A i \in db.investments : i.id # 1
    /\ \A g \in tags : g.id # 1

=============================================================================
